---- MODULE Spec2Model ----
(***************************************************************************)
(* Verification model of the supervised classification pipeline of         *)
(* cecdados: src/Python/data_interpretation/supervised_learning.py (the    *)
(* driver), src/Python/rozlib/ai/ai.py and supervised_ml.py (the trainer)  *)
(* and src/Python/rozlib/util.py (verbosity-gated output).                 *)
(*                                                                         *)
(* Numbers.  Indicator values (beta, DY) are integers standing for         *)
(* hundredths (0.05 is 5); tercile binning only compares values and        *)
(* interpolates linearly between them, so it is invariant under this       *)
(* scaling.  Quantile levels are hundredths too (0.33 is 33) and bin edges *)
(* are kept multiplied by 100 so that all arithmetic is exact.             *)
(*                                                                         *)
(* Libraries.  pandas is modelled by what the calls used here compute      *)
(* (from_dict/transpose, dropna, qcut, iloc, iterrows).  scikit-learn is   *)
(* modelled at its interface: train_test_split and fit are deterministic   *)
(* functions of their arguments when random_state is an integer and read   *)
(* the process-wide numpy generator when it is None.                       *)
(***************************************************************************)
EXTENDS Integers, Sequences, FiniteSets, TLC

VARIABLES
    series,     \* the indicator column handed to pd.qcut
    binned,     \* the outcome of pd.qcut on series
    prep_list,  \* valid_fiis_list of one data_preparation call
    prep_db,    \* what the database holds for the window of that call
    prep_out,   \* what the call returns or raises
    train_in,   \* X, Y, seed and test_set_size given to SupervisedML(...)
    trainer,    \* the SupervisedML objects and their evaluate_best runs
    sklearn,    \* the fits the library has made so far
    np_random,  \* state of the process-wide numpy generator
    env,        \* command line and database contents the script runs against
    pc,         \* the stage main is about to run
    stages,     \* the stages main has run so far, in order
    locals,     \* main's and validate_algorithms' locals and the script's globals
    reports,    \* what each evaluates_single_classification call counted and printed
    out,        \* stderr, exit status and the uncaught exception, if any
    generic,    \* a SupervisedML object whose evaluate_* methods are called one by one
    probe,      \* a call of one of the script's helper functions: arguments and result
    pool,       \* one call_function_for_single_or_multithread call and its tasks
    pg          \* the dividend tables and the loader tasks' connections to them

binVars == <<series, binned>>
prepVars == <<prep_list, prep_db, prep_out>>
trainVars == <<train_in, trainer, sklearn, np_random>>
pipeVars == <<env, pc, stages, locals, reports, out>>
callVars == <<generic, probe>>
loaderVars == <<pool, pg>>
vars == <<series, binned, prep_list, prep_db, prep_out,
          train_in, trainer, sklearn, np_random,
          env, pc, stages, locals, reports, out, generic, probe, pool, pg>>

Idle == [status |-> "idle"]
BinIdle == series = <<>> /\ binned = Idle
PrepIdle == prep_list = <<>> /\ prep_db = <<>> /\ prep_out = Idle
TrainIdle == train_in = Idle /\ trainer = <<>> /\ sklearn = {} /\ np_random = 0
PipeIdle ==
    /\ env = Idle /\ pc = "idle" /\ stages = <<>>
    /\ locals = Idle /\ reports = <<>> /\ out = Idle
GenericIdle == generic = Idle
ProbeIdle == probe = Idle
LoaderIdle == pool = Idle /\ pg = Idle

(***************************************************************************)
(* Bounds of the model.                                                    *)
(***************************************************************************)
MaxSmallLen == 4      \* series of up to this length are enumerated exhaustively
MaxValue == 4         \* ... over the values 1..MaxValue
MaxLongLen == 105     \* arithmetic series are enumerated up to this length
MaxFunds == 3         \* registered funds (tickers 1..MaxFunds)
MaxDays == 2          \* daily quotation rows of a fund inside a window
MaxRows == 4          \* rows of the data set handed to the trainer on its own

(***************************************************************************)
(* pandas helpers.                                                         *)
(***************************************************************************)
\* The missing value (None / NaN) of a DataFrame cell.
NaN == -1

Range(f) == {f[i] : i \in DOMAIN f}

IsDistinct(x) == \A i, j \in DOMAIN x : i # j => x[i] # x[j]

\* q=[0, .33, .67, 1] of the two pd.qcut calls, in hundredths.
qcut_q_quartiles == <<0, 25, 75, 100>>
qcut_q == <<0, 33, 67, 100>>

\* labels=[3, 2, 1] of the two pd.qcut calls: lowest bin first.
qcut_labels_reversed == <<1, 2, 3>>
qcut_labels == <<3, 2, 1>>

\* 100 * (the q-quantile of the ascending sequence s), linear interpolation
\* between the order statistics around position q * (n - 1).
Quantile100(s, q) ==
    LET pos100 == q * (Len(s) - 1)
        k == pos100 \div 100
        frac100 == pos100 % 100
    IN  IF frac100 = 0
        THEN 100 * s[k + 1]
        ELSE 100 * s[k + 1] + frac100 * (s[k + 2] - s[k + 1])

\* The bin edges pd.qcut derives from the column x (times 100).
BinEdges100(x, q) ==
    LET s == SortSeq(x, LAMBDA a, b : a < b)
    IN  [i \in DOMAIN q |-> Quantile100(s, q[i])]

\* Bin number of value v: bins are right-closed, (edge[i], edge[i+1]], and the
\* lowest edge is included in the first bin (include_lowest).
BinOf(edges, v) ==
    IF 100 * v = edges[1]
    THEN 1
    ELSE Cardinality({i \in DOMAIN edges : edges[i] < 100 * v})

\* pd.qcut(x, q, labels): ValueError ("Bin edges must be unique") unless the
\* edges are strictly increasing; otherwise one label per value, NaN for a
\* value outside every bin.
qcut(x, q, labels) ==
    IF Len(x) = 0
    THEN [status |-> "ValueError", value |-> <<>>]
    ELSE LET edges == BinEdges100(x, q)
         IN  IF \E i \in 1..(Len(edges) - 1) : edges[i] >= edges[i + 1]
             THEN [status |-> "ValueError", value |-> <<>>]
             ELSE [status |-> "ok",
                   value |-> [j \in DOMAIN x |->
                                 LET b == BinOf(edges, x[j])
                                 IN  IF b \in DOMAIN labels THEN labels[b] ELSE NaN]]

(***************************************************************************)
(* Specification SpecBin: the tercile binner applied to one column.        *)
(***************************************************************************)
SmallSeries == UNION {[1..n -> 1..MaxValue] : n \in 0..MaxSmallLen}

\* 5, 15, 25, ... (0.05, 0.15, 0.25, ...), ascending, descending or rotated.
LongSeries ==
    {[i \in 1..n |-> 5 + 10 * (i - 1)] : n \in 3..MaxLongLen}
    \cup {[i \in 1..n |-> 5 + 10 * (n - i)] : n \in 3..MaxLongLen}
    \cup {[i \in 1..n |-> 5 + 10 * ((i + (n \div 2)) % n)] : n \in 3..MaxLongLen}

InitBin ==
    /\ series \in SmallSeries \cup LongSeries
    /\ binned = [status |-> "pending", value |-> <<>>]
    /\ PrepIdle
    /\ TrainIdle
    /\ PipeIdle
    /\ GenericIdle
    /\ ProbeIdle
    /\ LoaderIdle

Bin ==
    /\ binned.status = "pending"
    /\ binned' = qcut(series, qcut_q, qcut_labels)
    /\ UNCHANGED <<series, prepVars, trainVars, pipeVars, callVars, loaderVars>>

NextBin == Bin

SpecBin == InitBin /\ [][NextBin]_vars

BinDone == binned.status # "pending"
ClassCount(c) == Cardinality({j \in DOMAIN binned.value : binned.value[j] = c})
ClassesMonotone ==
    \A i, j \in DOMAIN series :
        series[i] > series[j] => binned.value[i] <= binned.value[j]
LargestInClassOne ==
    \A i \in DOMAIN series :
        (\A j \in DOMAIN series : series[j] <= series[i]) => binned.value[i] = 1
EveryValueClassified ==
    /\ binned.status = "ok"
    /\ DOMAIN binned.value = DOMAIN series
    /\ \A j \in DOMAIN series : binned.value[j] \in {1, 2, 3}

\* C5 (as stated): n >= 3 pairwise distinct values are binned into classes
\* 1..3, each of floor(n/3) or ceil(n/3) values, monotone in the value, the
\* largest values in class 1.
C5_TercileSizesFloorOrCeil ==
    (BinDone /\ Len(series) >= 3 /\ IsDistinct(series)) =>
        /\ EveryValueClassified
        /\ \A c \in {1, 2, 3} :
              ClassCount(c) \in {Len(series) \div 3, (Len(series) + 2) \div 3}
        /\ ClassesMonotone
        /\ LargestInClassOne

\* C5 (amended): n >= 3 pairwise distinct values are binned into classes 1..3,
\* monotone in the value, the largest values in class 1; class 3 holds
\* floor(0.33 (n-1)) + 1 values and classes 3 and 2 together
\* floor(0.67 (n-1)) + 1, which is floor(n/3) or ceil(n/3) per class for every
\* n <= 103 (n = 104 gives 34, 36, 34).
C5_TercileSizesByCutPoints ==
    (BinDone /\ Len(series) >= 3 /\ IsDistinct(series)) =>
        /\ EveryValueClassified
        /\ ClassCount(3) = ((33 * (Len(series) - 1)) \div 100) + 1
        /\ ClassCount(3) + ClassCount(2) = ((67 * (Len(series) - 1)) \div 100) + 1
        /\ Len(series) <= 103 =>
              \A c \in {1, 2, 3} :
                  ClassCount(c) \in {Len(series) \div 3, (Len(series) + 2) \div 3}
        /\ ClassesMonotone
        /\ LargestInClassOne

\* Witness of C5: a distinct series longer than 103 values has been binned.
C5_Witness ==
    /\ binned.status = "ok"
    /\ IsDistinct(series)
    /\ Len(series) > 103
    /\ \A c \in {1, 2, 3} : ClassCount(c) > 0

\* C6: the betas 0.05, 0.15, 0.25, 0.35, 0.45 are binned to 3, 3, 2, 1, 1.
C6_FiveBetasScenario ==
    (BinDone /\ series = <<5, 15, 25, 35, 45>>) =>
        /\ binned.status = "ok"
        /\ binned.value = <<3, 3, 2, 1, 1>>

\* Witness of C6: the five betas of the scenario have been binned.
C6_Witness == binned.status = "ok" /\ series = <<5, 15, 25, 35, 45>>

(***************************************************************************)
(* The Quotation Assembler and the Target Binner: get_fiis_quotations and  *)
(* data_preparation.                                                       *)
(*                                                                         *)
(* The database content of a window is a record                            *)
(*   days         : ticker -> number of daily rows inside the interval     *)
(*   beta_indices : the dict calculate_beta_for_time_interval returns      *)
(*   dy_dict      : the dict get_dy_for_interval returns                   *)
(* The two dicts are partial functions; a value is a number or NaN (SQL    *)
(* NULL).  A quotation cell is the number 10 * day + column, which tells   *)
(* where in the fund's table it came from.                                 *)
(***************************************************************************)
Funds == 1..MaxFunds
IndicatorValues == {10, 20, 30}

daily_quotation_column_names ==
    <<"date", "last", "open", "maximum", "minimum", "volume", "variation">>

columns_to_exclude_from_data_vector == {"date", "volume", "variation"}

\* current_df.insert(1, "year_reference", ...): the frame's columns afterwards.
FrameColumns_without_year_reference == daily_quotation_column_names
FrameColumns ==
    <<daily_quotation_column_names[1], "year_reference">>
    \o SubSeq(daily_quotation_column_names, 2, Len(daily_quotation_column_names))

\* current_df.loc[:, ~current_df.columns.isin(columns_to_exclude_from_data_vector)]
RetainedColumns ==
    SelectSeq(FrameColumns, LAMBDA c : c \notin columns_to_exclude_from_data_vector)

ColumnIndex(c) == CHOOSE i \in DOMAIN FrameColumns : FrameColumns[i] = c

Cell(day, c) == 10 * day + ColumnIndex(c)

\* .to_numpy().flatten().tolist(): row-major over the fund's d daily rows.
quotation_data(d) ==
    LET r == Len(RetainedColumns)
    IN  [i \in 1..(d * r) |->
            Cell(((i - 1) \div r) + 1, RetainedColumns[((i - 1) % r) + 1])]

\* get_fiis_quotations: one entry per ticker of the list, in list order.
get_fiis_quotations(valid_fiis_list, db) ==
    [keys |-> valid_fiis_list,
     quotation_data |-> [t \in Range(valid_fiis_list) |-> quotation_data(db.days[t])]]

\* The try block of data_preparation: 'beta' is stored before the DY lookup, a
\* KeyError of either lookup ends the block for that ticker.
HasBetaKey(db, t) == t \in DOMAIN db.beta_indices
HasDYKey(db, t) == t \in DOMAIN db.beta_indices /\ t \in DOMAIN db.dy_dict

\* pd.DataFrame.from_dict(...).transpose(): a column exists when some ticker
\* holds the key; a ticker without the key holds NaN there.
FrameHasColumn(db, keys, c) ==
    IF c = "beta" THEN \E t \in Range(keys) : HasBetaKey(db, t)
    ELSE IF c = "DY" THEN \E t \in Range(keys) : HasDYKey(db, t)
    ELSE keys # <<>>

FrameBeta(db, t) == IF HasBetaKey(db, t) THEN db.beta_indices[t] ELSE NaN
FrameDY(db, t) == IF HasDYKey(db, t) THEN db.dy_dict[t] ELSE NaN

\* quotation_dataframe.dropna(): the rows without a missing cell, in order.
dropna_keeps_all(db, keys) == keys
dropna(db, keys) ==
    SelectSeq(keys, LAMBDA t :
        /\ FrameHasColumn(db, keys, "beta") => FrameBeta(db, t) # NaN
        /\ FrameHasColumn(db, keys, "DY") => FrameDY(db, t) # NaN)

\* quotation_dataframe[c] = pd.qcut(quotation_dataframe[c], ...): KeyError when
\* the frame has no such column.
BinColumn(db, keys, index, c) ==
    IF ~FrameHasColumn(db, keys, c)
    THEN [status |-> "KeyError", value |-> <<>>]
    ELSE qcut([i \in DOMAIN index |->
                  IF c = "beta" THEN FrameBeta(db, index[i]) ELSE FrameDY(db, index[i])],
              qcut_q, qcut_labels)

PadRight(v, w) == [i \in 1..w |-> IF i <= Len(v) THEN v[i] ELSE NaN]

SeqMax(f) == IF DOMAIN f = {} THEN 0 ELSE CHOOSE m \in Range(f) : \A x \in Range(f) : x <= m

\* pd.DataFrame(list of lists, index=...): as wide as the longest list, shorter
\* lists padded with NaN; columns are labelled 0, 1, ...
FeatureFrame(index, lists) ==
    LET w == SeqMax([i \in DOMAIN index |-> Len(lists[index[i]])])
    IN  [index |-> index,
         columns |-> [i \in 1..w |-> i - 1],
         rows |-> [t \in Range(index) |-> PadRight(lists[t], w)]]

NoFrame == [index |-> <<>>, columns |-> <<>>, rows |-> <<>>]
NoLabels == [index |-> <<>>, class |-> <<>>]

\* One label column (Y_beta or Y_dy): index and the class of every ticker.
LabelFrame(index, classes) ==
    [index |-> index,
     class |-> [t \in Range(index) |->
                   classes[CHOOSE i \in DOMAIN index : index[i] = t]]]

\* data_preparation(valid_fiis_list, start_date, end_date) on the window db.
data_preparation(valid_fiis_list, db) ==
    LET dict == get_fiis_quotations(valid_fiis_list, db)
        index == dropna(db, dict.keys)
        beta == BinColumn(db, dict.keys, index, "beta")
        dy == BinColumn(db, dict.keys, index, "DY")
    IN  IF beta.status # "ok"
        THEN [status |-> beta.status, X |-> NoFrame, Y_beta |-> NoLabels, Y_dy |-> NoLabels]
        ELSE IF dy.status # "ok"
        THEN [status |-> dy.status, X |-> NoFrame, Y_beta |-> NoLabels, Y_dy |-> NoLabels]
        ELSE [status |-> "ok",
              X |-> FeatureFrame(index, dict.quotation_data),
              Y_beta |-> LabelFrame(index, beta.value),
              Y_dy |-> LabelFrame(index, dy.value)]

(***************************************************************************)
(* Specification SpecPrep: one data_preparation call on every window of    *)
(* up to MaxFunds funds.                                                   *)
(***************************************************************************)
\* Fund t has 1..MaxDays daily rows, by ticker.
DaysByTicker == [t \in Funds |-> ((t - 1) % MaxDays) + 1]

IndicatorDicts(tickers) ==
    UNION {[S -> IndicatorValues \cup {NaN}] : S \in SUBSET tickers}

InitPrep ==
    /\ \E n \in 0..MaxFunds :
          /\ prep_list = [i \in 1..n |-> i]
          /\ \E b \in IndicatorDicts(1..n), d \in IndicatorDicts(1..n) :
                prep_db = [days |-> DaysByTicker, beta_indices |-> b, dy_dict |-> d]
    /\ prep_out = [status |-> "pending"]
    /\ BinIdle
    /\ TrainIdle
    /\ PipeIdle
    /\ GenericIdle
    /\ ProbeIdle
    /\ LoaderIdle

DataPreparation ==
    /\ prep_out.status = "pending"
    /\ prep_out' = data_preparation(prep_list, prep_db)
    /\ UNCHANGED <<prep_list, prep_db, binVars, trainVars, pipeVars, callVars, loaderVars>>

NextPrep == DataPreparation

SpecPrep == InitPrep /\ [][NextPrep]_vars

PrepDone == prep_out.status \notin {"pending", "idle"}
Listed == Range(prep_list)
LacksAnIndicator(t) == t \notin DOMAIN prep_db.beta_indices \/ t \notin DOMAIN prep_db.dy_dict
Complete(t) ==
    /\ t \in DOMAIN prep_db.beta_indices /\ prep_db.beta_indices[t] # NaN
    /\ t \in DOMAIN prep_db.dy_dict /\ prep_db.dy_dict[t] # NaN
CompleteFunds == SelectSeq(prep_list, Complete)

\* Only funds with both indicators defined are rows of X and of the label
\* vectors, and the classes are the terciles of those funds alone.
OnlyCompleteFundsRemain ==
    prep_out.status = "ok" =>
        /\ prep_out.X.index = CompleteFunds
        /\ prep_out.Y_beta.index = CompleteFunds
        /\ prep_out.Y_dy.index = CompleteFunds
        /\ DOMAIN prep_out.X.rows = Range(CompleteFunds)
        /\ LET b == qcut([i \in DOMAIN CompleteFunds |-> prep_db.beta_indices[CompleteFunds[i]]],
                         qcut_q, qcut_labels)
               d == qcut([i \in DOMAIN CompleteFunds |-> prep_db.dy_dict[CompleteFunds[i]]],
                         qcut_q, qcut_labels)
           IN  \A i \in DOMAIN CompleteFunds :
                   /\ prep_out.Y_beta.class[CompleteFunds[i]] = b.value[i]
                   /\ prep_out.Y_dy.class[CompleteFunds[i]] = d.value[i]

\* C4 (as stated): a fund without a beta or DY entry, or with an undefined
\* one, is no row of X nor of the label vectors and takes no part in the cut
\* points, and its absence raises no error while another fund has both
\* indicators.
C4_MissingIndicatorNeverRaises ==
    PrepDone =>
        /\ OnlyCompleteFundsRemain
        /\ (\E t, u \in Listed : t # u /\ ~Complete(t) /\ Complete(u)) =>
               prep_out.status = "ok"

\* C4 (amended): a fund without a beta or DY entry, or with an undefined one,
\* is no row of X nor of the label vectors and takes no part in the cut
\* points; its absence raises no KeyError while another fund has both
\* indicators, and no error at all while at least two funds have both
\* indicators with pairwise distinct betas and pairwise distinct DYs (binning a
\* single remaining fund, or tied quantile edges, raises ValueError).
C4_MissingIndicatorDropped ==
    PrepDone =>
        /\ OnlyCompleteFundsRemain
        /\ (\E u \in Listed : Complete(u)) => prep_out.status # "KeyError"
        /\ ( /\ Len(CompleteFunds) >= 2
             /\ IsDistinct([i \in DOMAIN CompleteFunds |-> prep_db.beta_indices[CompleteFunds[i]]])
             /\ IsDistinct([i \in DOMAIN CompleteFunds |-> prep_db.dy_dict[CompleteFunds[i]]]) )
           => prep_out.status = "ok"

\* Witness of C4: a call that returned at least two rows although a listed
\* fund has no beta entry or no DY entry; that fund is no row of X.
C4_Witness ==
    /\ prep_out.status = "ok"
    /\ \E t \in Listed : LacksAnIndicator(t) /\ t \notin Range(prep_out.X.index)
    /\ Len(prep_out.X.index) >= 2

(***************************************************************************)
(* The Model Trainer: AI.__init__, AI.split_test_train_sets,               *)
(* AI.evaluate_method_accuracy and SupervisedML.                           *)
(*                                                                         *)
(* A data set is an index (sequence of tickers) with a class per ticker.   *)
(* A fitted model is abstracted by the class it predicts; which class a    *)
(* fit yields is the library's choice, and it is the same choice whenever  *)
(* the same estimator is fitted with the same random_state on the same     *)
(* data (sklearn holds every fit made so far).  The hard-voting ensemble   *)
(* predicts the majority of its three estimators.                          *)
(***************************************************************************)
Classes == {1, 2, 3}

NoneModel ==
    [method |-> "None", random_state |-> 0, fitted_X |-> <<>>, fitted_y |-> <<>>,
     estimators |-> <<>>, predicts |-> 0]

\* The class attributes of AI and SupervisedML: what an attribute reads as
\* until __init__ assigns it (test sizes are tenths: 0.3 is 3).
ClassAttributes ==
    [_test_set_size |-> 3, _seed |-> 10,
     _X |-> <<>>, _Y |-> <<>>, _X_train |-> <<>>, _X_test |-> <<>>,
     _Y_train |-> <<>>, _Y_test |-> <<>>,
     decision_tree |-> NoneModel, mlp |-> NoneModel, random_forest |-> NoneModel,
     voting |-> NoneModel, bagging |-> NoneModel, knn |-> NoneModel,
     boosting |-> NoneModel]

\* The defaults of SupervisedML.__init__'s seed and test_set_size parameters.
ConstructorDefaults == [seed |-> 10, test_set_size |-> 3]

Restrict(f, S) == [x \in S |-> f[x]]

\* sklearn.model_selection.train_test_split(X, Y, test_size, stratify, random_state):
\* ceil(test_size * n) rows go to the test partition, chosen by a shuffle that
\* random_state fixes (here: a rotation of the index by random_state).
train_test_split(index, Y, test_size, random_state) ==
    LET n == Len(index)
        n_test == (test_size * n + 9) \div 10
        rotated == [i \in 1..n |-> index[((i - 1 + random_state) % n) + 1]]
        test == SubSeq(rotated, 1, n_test)
        train == SubSeq(rotated, n_test + 1, n)
    IN  [X_train |-> train, X_test |-> test,
         Y_train |-> Restrict(Y, Range(train)), Y_test |-> Restrict(Y, Range(test))]

\* The random_state and test_size arguments of the call in split_test_train_sets;
\* rng is the state of the process-wide numpy generator, which sklearn draws
\* from when random_state is None.
split_random_state_none(self, rng) == rng
split_random_state(self, rng) == self._seed

split_test_size(self) == self._test_set_size

split_test_train_sets(self, rng) ==
    train_test_split(self._X, self._Y, split_test_size(self), split_random_state(self, rng))

\* AI.__init__ with X and Y given (the path SupervisedML(X=X, Y=Y) takes): the
\* split runs before _seed and _test_set_size are assigned.
AI_init(X, Y, seed, test_set_size, rng) ==
    LET s1 == [ClassAttributes EXCEPT !._X = X, !._Y = Y]
        split == split_test_train_sets(s1, rng)
        s2 == [s1 EXCEPT !._X_train = split.X_train, !._X_test = split.X_test,
                         !._Y_train = split.Y_train, !._Y_test = split.Y_test]
    IN  [s2 EXCEPT !._seed = seed, !._test_set_size = test_set_size]

\* np.random.seed(self._seed) at the end of AI.__init__.
np_random_seed(seed) == seed

Model(method, random_state, X_train, y_train, estimators, h) ==
    [method |-> method, random_state |-> random_state, fitted_X |-> X_train,
     fitted_y |-> y_train, estimators |-> estimators, predicts |-> h]

\* The most frequent of the estimators' predictions, the smallest class on a tie.
Majority(votes) ==
    LET count(c) == Cardinality({i \in DOMAIN votes : votes[i] = c})
    IN  CHOOSE c \in Classes :
            /\ \A d \in Classes : count(d) <= count(c)
            /\ \A d \in Classes : count(d) = count(c) => c <= d

\* random_state handed to the estimator's constructor (KNeighborsClassifier and
\* VotingClassifier take none; they use no randomness of their own).
estimator_random_state(self, method) ==
    IF method \in {"tree", "mlp", "bagging", "boosting", "random_forest"}
    THEN self._seed
    ELSE 0

Raised(kind) == [status |-> kind, model |-> NoneModel]

\* method_name.lower(), on the spellings used here.
lower(name) ==
    IF name = "Tree" THEN "tree"
    ELSE IF name = "KNN" THEN "knn"
    ELSE name

\* SupervisedML.__evaluate_generic_supervised_method(method_name, X_train, y_train,
\* re_evaluate); h is the class the fitted estimator turns out to predict.
\* The inner calls of the 'bagging' and 'voting' branches pass no training data
\* (TypeError); a name outside the chain leaves generic_model None
\* (AttributeError at .fit).
evaluate_generic_supervised_method(self, name, X_train, y_train, re_evaluate, h) ==
    LET method_name == lower(name)
        rs == estimator_random_state(self, method_name)
    IN  IF method_name \in {"tree", "mlp", "knn", "boosting", "random_forest"}
        THEN [status |-> "ok", model |-> Model(method_name, rs, X_train, y_train, <<>>, h)]
        ELSE IF method_name = "bagging"
        THEN IF self.decision_tree = NoneModel \/ re_evaluate
             THEN Raised("TypeError")
             ELSE [status |-> "ok",
                   model |-> Model(method_name, rs, X_train, y_train,
                                   <<self.decision_tree>>, h)]
        ELSE IF method_name = "voting"
        THEN IF \/ self.decision_tree = NoneModel \/ self.mlp = NoneModel
                \/ self.knn = NoneModel \/ re_evaluate
             THEN Raised("TypeError")
             ELSE [status |-> "ok",
                   model |-> Model(method_name, rs, X_train, y_train,
                                   <<self.decision_tree, self.mlp, self.knn>>,
                                   Majority(<<self.decision_tree.predicts, self.mlp.predicts,
                                              self.knn.predicts>>))]
        ELSE Raised("AttributeError")

\* The keys of the results dict, in the order evaluate_best_supervised_method
\* fills them, and the method name each evaluate_* wrapper passes on.
MethodOrderEnsemblesFirst ==
    <<"voting", "bagging", "decision_tree", "mlp", "knn", "boosting", "random_forest">>
MethodOrder ==
    <<"decision_tree", "mlp", "knn", "voting", "bagging", "boosting", "random_forest">>

GenericName(key) == IF key = "decision_tree" THEN "tree" ELSE key

\* evaluate_decision_tree ... evaluate_random_forest: fit, then cache the model
\* in the attribute of the same name.
evaluate_wrapper(self, key, X_train, y_train, h) ==
    LET r == evaluate_generic_supervised_method(self, GenericName(key), X_train, y_train,
                                                FALSE, h)
    IN  [status |-> r.status,
         model |-> r.model,
         self |-> IF r.status = "ok" THEN [self EXCEPT ![key] = r.model] ELSE self]

\* model.predict(rows): the class the model predicts, for every row.
predict(model, t) == model.predicts

\* AI.evaluate_method_accuracy: accuracy_score(Y_test, model.predict(X_test)),
\* kept as the fraction num / den.
evaluate_method_accuracy_on_train(self, model) ==
    [num |-> Cardinality({t \in Range(self._X_train) : predict(model, t) = self._Y_train[t]}),
     den |-> Len(self._X_train)]
evaluate_method_accuracy(self, model) ==
    [num |-> Cardinality({t \in Range(self._X_test) : predict(model, t) = self._Y_test[t]}),
     den |-> Len(self._X_test)]

AccGreater(a, b) == a.num * b.den > b.num * a.den
AccEqual(a, b) == a.num * b.den = b.num * a.den

\* One "# Decision tree: ... # Random forest:" block of
\* evaluate_best_supervised_method: fit, score, store under the key.
evaluate_block(self, results, key, h) ==
    LET r == evaluate_wrapper(self, key, self._X_train, self._Y_train, h)
    IN  [status |-> r.status,
         self |-> r.self,
         results |-> IF r.status = "ok"
                     THEN Append(results,
                                 [name |-> key,
                                  accuracy |-> evaluate_method_accuracy(r.self, r.model),
                                  model |-> r.model])
                     ELSE results]

\* sorted(results, key=accuracy, reverse=True): a stable sort, entries of equal
\* accuracy keep their insertion order.
RECURSIVE sorted_ties_reversed(_)
sorted_ties_reversed(results) ==
    IF results = <<>>
    THEN <<>>
    ELSE LET rest == sorted_ties_reversed(SubSeq(results, 1, Len(results) - 1))
             last == results[Len(results)]
             k == Cardinality({i \in DOMAIN rest : AccGreater(rest[i].accuracy, last.accuracy)})
         IN  SubSeq(rest, 1, k) \o <<last>> \o SubSeq(rest, k + 1, Len(rest))

RECURSIVE sorted_by_accuracy(_)
sorted_unsorted(results) == results
sorted_by_accuracy(results) ==
    IF results = <<>>
    THEN <<>>
    ELSE LET rest == sorted_by_accuracy(SubSeq(results, 1, Len(results) - 1))
             last == results[Len(results)]
             \* last goes behind every entry whose accuracy is not smaller
             k == Cardinality({i \in DOMAIN rest : ~AccGreater(last.accuracy, rest[i].accuracy)})
         IN  SubSeq(rest, 1, k) \o <<last>> \o SubSeq(rest, k + 1, Len(rest))

\* What the library may answer for a fit, given the fits made so far.
FitOutcomes(memo, self, key) ==
    LET rs == estimator_random_state(self, GenericName(key))
        known == {m \in memo : /\ m.method = GenericName(key)
                               /\ m.random_state = rs
                               /\ m.fitted_X = self._X_train
                               /\ m.fitted_y = self._Y_train}
    IN  IF known # {} THEN {m.predicts : m \in known} ELSE Classes

(***************************************************************************)
(* Specification SpecTrain: two SupervisedML objects built one after the   *)
(* other from the same X, Y, seed and test_set_size, each running          *)
(* evaluate_best_supervised_method block by block.                         *)
(***************************************************************************)
Runs == {"first", "second"}

\* Class vectors for rows 1..n: the tercile classes of n distinct values, in
\* every rotation.
TrainingLabels(n) ==
    {LET v == [i \in 1..n |-> 10 * (((i + r) % n) + 1)]
         c == qcut(v, qcut_q, qcut_labels).value
     IN  [t \in 1..n |-> c[t]] : r \in 0..(n - 1)}

Unbuilt == [pc |-> "unbuilt", self |-> ClassAttributes, results |-> <<>>, returned |-> <<>>]

InitTrain ==
    /\ \E Y \in TrainingLabels(MaxRows), seed \in {7, 10}, size \in {3, 5} :
          train_in = [X |-> [i \in 1..MaxRows |-> i], Y |-> Y,
                      seed |-> seed, test_set_size |-> size]
    /\ trainer = [r \in Runs |-> Unbuilt]
    /\ sklearn = {}
    /\ np_random \in {0, 1}
    /\ BinIdle
    /\ PrepIdle
    /\ PipeIdle
    /\ GenericIdle
    /\ ProbeIdle
    /\ LoaderIdle

\* SupervisedML(X=X, Y=Y, seed=seed, test_set_size=size)
Construct(run) ==
    /\ trainer[run].pc = "unbuilt"
    /\ run = "second" => trainer["first"].pc = "returned"
    /\ trainer' = [trainer EXCEPT ![run] =
                      [@ EXCEPT !.pc = "evaluating",
                                !.self = AI_init(train_in.X, train_in.Y, train_in.seed,
                                                 train_in.test_set_size, np_random)]]
    /\ np_random' = np_random_seed(train_in.seed)
    /\ UNCHANGED <<train_in, sklearn, binVars, prepVars, pipeVars, callVars, loaderVars>>

\* The next block of evaluate_best_supervised_method.
EvaluateBlock(run) ==
    /\ trainer[run].pc = "evaluating"
    /\ Len(trainer[run].results) < Len(MethodOrder)
    /\ LET key == MethodOrder[Len(trainer[run].results) + 1]
       IN  \E h \in FitOutcomes(sklearn, trainer[run].self, key) :
              LET r == evaluate_block(trainer[run].self, trainer[run].results, key, h)
              IN  /\ trainer' = [trainer EXCEPT ![run] =
                                    [@ EXCEPT !.pc = IF r.status = "ok" THEN @ ELSE "raised",
                                              !.self = r.self,
                                              !.results = r.results]]
                  /\ sklearn' = IF r.status = "ok"
                                THEN sklearn \cup {r.self[key]}
                                ELSE sklearn
    /\ UNCHANGED <<train_in, np_random, binVars, prepVars, pipeVars, callVars, loaderVars>>

\* sorted_dict is built and returned.
ReturnSorted(run) ==
    /\ trainer[run].pc = "evaluating"
    /\ Len(trainer[run].results) = Len(MethodOrder)
    /\ trainer' = [trainer EXCEPT ![run] =
                      [@ EXCEPT !.pc = "returned",
                                !.returned = sorted_by_accuracy(trainer[run].results)]]
    /\ UNCHANGED <<train_in, sklearn, np_random, binVars, prepVars, pipeVars, callVars, loaderVars>>

NextTrain ==
    \E run \in Runs : Construct(run) \/ EvaluateBlock(run) \/ ReturnSorted(run)

SpecTrain == InitTrain /\ [][NextTrain]_vars

(***************************************************************************)
(* Claims about the trainer (specification SpecTrain)                      *)
(***************************************************************************)
Returned(run) == trainer # <<>> /\ trainer[run].pc = "returned"

Built(run) == trainer # <<>> /\ trainer[run].pc # "unbuilt"

SevenNames ==
    {"decision_tree", "mlp", "knn", "voting", "bagging", "boosting", "random_forest"}

\* Fraction of the rows of the run's test partition whose true class (read
\* from the label vector given to the constructor) the model predicts.
HeldOutHits(run, model) ==
    Cardinality({t \in Range(trainer[run].self._X_test) : model.predicts = train_in.Y[t]})

HeldOutRows(run) == Len(trainer[run].self._X_test)

EntryIsHeldOutScored(run, e) ==
    /\ e.model # NoneModel
    /\ e.model.method = GenericName(e.name)
    /\ e.model.fitted_X = trainer[run].self._X_train
    /\ e.accuracy.den = HeldOutRows(run)
    /\ e.accuracy.den > 0
    /\ e.accuracy.num = HeldOutHits(run, e.model)

NonIncreasing(ranked) ==
    \A i, j \in DOMAIN ranked :
        i < j => ranked[i].accuracy.num * ranked[j].accuracy.den
                    >= ranked[j].accuracy.num * ranked[i].accuracy.den

\* C7: what evaluate_best_supervised_method returns has exactly the seven
\* entries decision_tree, mlp, knn, voting, bagging, boosting, random_forest,
\* each with a fitted model and that model's accuracy on the test partition,
\* in non-increasing order of accuracy, so the first entry has the maximum.
C7_SevenEntriesRankedByHeldOutAccuracy ==
    \A run \in Runs :
        Returned(run) =>
            LET ranked == trainer[run].returned
            IN  /\ Len(ranked) = 7
                /\ {ranked[i].name : i \in DOMAIN ranked} = SevenNames
                /\ \A i \in DOMAIN ranked : EntryIsHeldOutScored(run, ranked[i])
                /\ NonIncreasing(ranked)
                /\ \A i \in DOMAIN ranked :
                       ranked[1].accuracy.num * ranked[i].accuracy.den
                           >= ranked[i].accuracy.num * ranked[1].accuracy.den

\* C7 witness: a run has returned a ranking whose accuracies differ and whose
\* order is not the order in which the methods were evaluated.
C7_Witness ==
    \E run \in Runs :
        /\ Returned(run)
        /\ trainer[run].returned # trainer[run].results
        /\ AccGreater(trainer[run].returned[1].accuracy, trainer[run].returned[7].accuracy)
        /\ trainer[run].returned[1].name # "decision_tree"

AccuracyOf(run, name) ==
    LET ranked == trainer[run].returned
    IN  ranked[CHOOSE i \in DOMAIN ranked : ranked[i].name = name].accuracy

\* C9: two evaluate_best_supervised_method runs on objects built from the
\* same X, Y and seed have the same train/test split, the same accuracy for
\* each of the seven algorithms and the same ranking order.
C9_TrainingIsDeterministic ==
    LET a == trainer["first"]
        b == trainer["second"]
    IN  /\ (Built("first") /\ Built("second")) =>
               /\ a.self._X_train = b.self._X_train
               /\ a.self._X_test = b.self._X_test
               /\ a.self._Y_train = b.self._Y_train
               /\ a.self._Y_test = b.self._Y_test
        /\ (Returned("first") /\ Returned("second")) =>
               /\ \A name \in SevenNames :
                      AccEqual(AccuracyOf("first", name), AccuracyOf("second", name))
               /\ [i \in DOMAIN a.returned |-> a.returned[i].name]
                      = [i \in DOMAIN b.returned |-> b.returned[i].name]

\* C9 witness: both runs have returned, the generator's state differed between
\* the two constructions, and the algorithms do not all score the same.
C9_Witness ==
    /\ Returned("first")
    /\ Returned("second")
    /\ \E n1, n2 \in SevenNames :
           AccGreater(AccuracyOf("first", n1), AccuracyOf("first", n2))
    /\ \E n1, n2 \in SevenNames :
           AccGreater(AccuracyOf("second", n1), AccuracyOf("second", n2))

(***************************************************************************)
(* The script: main, train_algorithms, validate_algorithms and             *)
(* evaluates_single_classification of supervised_learning.py.              *)
(***************************************************************************)
MaxVerbosity == 2

\* Utilities.eprint / Utilities.print_verbose: the message is written when
\* self.verbosity >= verbosity_level.
eprint_above_level(verbosity, verbosity_level) == verbosity > verbosity_level
eprint(verbosity, verbosity_level) == verbosity >= verbosity_level

print_verbose_above_level(verbosity, verbosity_level) == verbosity > verbosity_level
print_verbose(verbosity, verbosity_level) == verbosity >= verbosity_level

WidthMessage == "Validation set must be at least the same size as the trainning set."

\* A frame row holds a missing cell.
RowHasNaN(row) == \E i \in DOMAIN row : row[i] = NaN

FrameHasNaN(X) == \E t \in Range(X.index) : RowHasNaN(X.rows[t])

\* The seven blocks of evaluate_best_supervised_method from block k on; hv
\* gives, per key, the class the fitted estimator turns out to predict.
RECURSIVE evaluate_blocks(_, _, _, _)
evaluate_blocks(self, results, k, hv) ==
    IF k > Len(MethodOrder)
    THEN [status |-> "ok", self |-> self, results |-> results]
    ELSE LET r == evaluate_block(self, results, MethodOrder[k], hv[MethodOrder[k]])
         IN  IF r.status # "ok" THEN r ELSE evaluate_blocks(r.self, r.results, k + 1, hv)

\* SupervisedML.evaluate_best_supervised_method(): every estimator's fit
\* validates its input and raises ValueError on a missing value.
evaluate_best_supervised_method(self, X, hv) ==
    IF FrameHasNaN(X)
    THEN [status |-> "ValueError", self |-> self, results |-> <<>>]
    ELSE LET r == evaluate_blocks(self, <<>>, 1, hv)
         IN  [status |-> r.status, self |-> r.self,
              results |-> sorted_by_accuracy(r.results)]

\* The first column kept by
\* X_for_validation.iloc[:, len(X_for_validation.columns) - len(X_trainning.columns):]
first_column_zero(V, T) == 0
first_column_kept(V, T) == V - T

\* X.iloc[:, first:] followed by X.dropna().
iloc_columns_from(X, first) ==
    LET w == Len(X.columns) - first
    IN  [index |-> X.index,
         columns |-> [i \in 1..w |-> X.columns[first + i]],
         rows |-> [t \in Range(X.index) |-> [i \in 1..w |-> X.rows[t][first + i]]]]

frame_dropna_keeps_all(X) == X
frame_dropna(X) ==
    LET kept == SelectSeq(X.index, LAMBDA t : ~RowHasNaN(X.rows[t]))
    IN  [index |-> kept, columns |-> X.columns, rows |-> Restrict(X.rows, Range(kept))]

\* f'{x:.2f}' of x = 100 * num / den, in hundredths (ties to even).
format_2f(num, den) ==
    LET q == (10000 * num) \div den
        r == (10000 * num) % den
    IN  IF 2 * r > den \/ (2 * r = den /\ q % 2 = 1) THEN q + 1 ELSE q

\* The methods the inner loop of evaluates_single_classification visits for a
\* row: all of supervised_ml_results in dict order, or, with the flag set, the
\* first one only (the break at the end of the first iteration).
methods_visited_ignoring_flag(supervised_ml_results, is_evaluate_only_best_approach) ==
    supervised_ml_results
methods_visited(supervised_ml_results, is_evaluate_only_best_approach) ==
    IF is_evaluate_only_best_approach /\ supervised_ml_results # <<>>
    THEN SubSeq(supervised_ml_results, 1, 1)
    ELSE supervised_ml_results

\* Y_for_validation[indicator_label].loc[index] == predicted_value
matches_always(real, predicted) == TRUE
matches_prediction(real, predicted) == real = predicted

\* for current_method in supervised_ml_results: the loops read the name and
\* the model of every entry of the dict they were handed and assign to none,
\* so the caller's dict is as it was when the call ends.
supervised_ml_results_consumed(supervised_ml_results) ==
    IF supervised_ml_results = <<>> THEN <<>> ELSE Tail(supervised_ml_results)
supervised_ml_results_after(supervised_ml_results) == supervised_ml_results

\* Y_for_validation[indicator_label].loc[index]: the class stored under the
\* label (ticker) of the row iterrows yields at the given position.
real_class_by_position(Y, index, position) == Y.class[Y.index[position]]
real_class(Y, index, position) == Y.class[index]

\* evaluates_single_classification(X_for_validation, Y_for_validation,
\* supervised_ml_results, indicator_label, is_evaluate_only_best_approach):
\* the comparisons in the order the two loops make them, the counters, and
\* the three messages (the performance expression divides by the sum of the
\* counters before print_verbose is entered); stdout lists what the call
\* writes: one table per row at level 2, then the summary lines at level 1.
evaluates_single_classification(X, Y, supervised_ml_results, indicator_label, is_evaluate_only_best_approach, verbosity) ==
    LET methods == methods_visited(supervised_ml_results, is_evaluate_only_best_approach)
        m == Len(methods)
        compared ==
            [k \in 1..(Len(X.index) * m) |->
                LET position == ((k - 1) \div m) + 1
                    index == X.index[position]
                    current == methods[((k - 1) % m) + 1]
                    predicted_value == predict(current.model, index)
                    real_value == real_class(Y, index, position)
                IN  [index |-> index,
                     current_method |-> current.name,
                     predicted_value |-> predicted_value,
                     real_value |-> real_value,
                     matches |-> matches_prediction(real_value, predicted_value)]]
        true_counter == Cardinality({k \in DOMAIN compared : compared[k].matches})
        false_counter == Cardinality({k \in DOMAIN compared : ~compared[k].matches})
    IN  [status |-> IF true_counter + false_counter = 0 THEN "ZeroDivisionError" ELSE "ok",
         indicator_label |-> indicator_label,
         is_evaluate_only_best_approach |-> is_evaluate_only_best_approach,
         rows |-> X.index,
         models |-> [j \in DOMAIN supervised_ml_results |-> supervised_ml_results[j].name],
         compared |-> compared,
         true_counter |-> true_counter,
         false_counter |-> false_counter,
         performance |-> IF true_counter + false_counter = 0
                         THEN NaN
                         ELSE format_2f(true_counter, true_counter + false_counter),
         supervised_ml_results |-> supervised_ml_results_after(supervised_ml_results),
         printed |-> print_verbose(verbosity, 1),
         stdout |->
             (IF print_verbose(verbosity, 2)
              THEN [i \in DOMAIN X.index |-> "table"]
              ELSE <<>>)
             \o (IF print_verbose(verbosity, 1) THEN <<"Trues", "Falses">> ELSE <<>>)
             \o (IF true_counter + false_counter # 0 /\ print_verbose(verbosity, 1)
                 THEN <<"Performance">>
                 ELSE <<>>)]

\* The order of main's stages (validate_algorithms inlined), and the stage
\* that follows a stage which returned normally.
StageOrder ==
    <<"init", "fetch_training_funds", "prepare_training_data", "train_beta", "train_dy",
      "prepare_validation_data", "width_check", "validate_beta_all", "validate_beta_best",
      "validate_dy_all", "validate_dy_best", "terminate">>

StagePosition(stage) == CHOOSE i \in DOMAIN StageOrder : StageOrder[i] = stage

stage_after_skipping_best(stage) ==
    IF stage = "terminate" THEN "done"
    ELSE IF stage = "validate_beta_all" THEN "validate_dy_all"
    ELSE StageOrder[StagePosition(stage) + 1]
stage_after(stage) ==
    IF stage = StageOrder[Len(StageOrder)]
    THEN "done"
    ELSE StageOrder[StagePosition(stage) + 1]

(***************************************************************************)
(* Specification Spec: one run of the script, stage by stage.              *)
(***************************************************************************)
\* Indicator maps of a window: by ticker, rising, falling, all equal.
Rising == [t \in Funds |-> 10 * t]
Falling == [t \in Funds |-> 10 * (MaxFunds + 1 - t)]
AllEqual == [t \in Funds |-> 10]
Without(f, t) == Restrict(f, DOMAIN f \ {t})
Undefined(f, t) == [f EXCEPT ![t] = NaN]

WindowIndicators ==
    {[beta_indices |-> Rising, dy_dict |-> Rising],
     [beta_indices |-> Rising, dy_dict |-> Falling],
     [beta_indices |-> AllEqual, dy_dict |-> Rising],
     [beta_indices |-> Without(Falling, MaxFunds), dy_dict |-> Rising],
     [beta_indices |-> Rising, dy_dict |-> Undefined(Falling, 1)],
     [beta_indices |-> <<>>, dy_dict |-> Rising]}

\* Daily rows per fund: the same for every fund, or one row short for fund 1.
WindowDays ==
    {[t \in Funds |-> d] : d \in 1..MaxDays}
    \cup {[t \in Funds |-> IF t = 1 /\ MaxDays > 1 THEN MaxDays - 1 ELSE MaxDays]}

Windows ==
    {[days |-> d, beta_indices |-> i.beta_indices, dy_dict |-> i.dy_dict] :
        d \in WindowDays, i \in WindowIndicators}

\* The fits the library is taken to answer with in a run of the script.
PipelineFits ==
    {[key \in SevenNames |-> IF key \in D THEN 3 ELSE 1] :
        D \in {{}, {"decision_tree", "mlp"}, {"boosting"}}}

NoLocals ==
    [valid_fiis_list |-> <<>>,
     X_trainning |-> NoFrame, Y_beta |-> NoLabels, Y_dy |-> NoLabels,
     beta_supervised_ml_results |-> <<>>, dy_supervised_ml_results |-> <<>>,
     X_validation |-> NoFrame, X_for_validation |-> NoFrame,
     Y_validation_beta |-> NoLabels, Y_validaton_dy |-> NoLabels]

Init ==
    /\ \E v \in (-1)..MaxVerbosity, n \in {0, MaxFunds},
          trainning \in Windows, validation \in Windows :
          env = [verbosity |-> v, registered |-> [i \in 1..n |-> i],
                 trainning |-> trainning, validation |-> validation]
    /\ pc = StageOrder[1]
    /\ stages = <<>>
    /\ locals = NoLocals
    /\ reports = <<>>
    /\ out = [stderr |-> <<>>, exited |-> FALSE, exit_status |-> 0, raised |-> "none"]
    /\ train_in = Idle
    /\ trainer = <<>>
    /\ sklearn = {}
    /\ np_random \in {0, 1}
    /\ BinIdle
    /\ PrepIdle
    /\ GenericIdle
    /\ ProbeIdle
    /\ LoaderIdle

\* The database rows between start_date_for_trainning and
\* end_date_for_trainning, and those between start_date_for_validation and
\* end_date_for_validation.
trainning_window(e) == e.trainning

validation_window_of_trainning(e) == e.trainning
validation_window(e) == e.validation

\* The stage pc returned normally.
Returns(stage) ==
    /\ pc = stage
    /\ stages' = Append(stages, stage)
    /\ pc' = stage_after(stage)

\* The stage pc raised an exception nothing catches: traceback, exit status 1.
Raises(stage, kind) ==
    /\ pc = stage
    /\ stages' = Append(stages, stage)
    /\ pc' = "raised"
    /\ out' = [out EXCEPT !.exited = TRUE, !.exit_status = 1, !.raised = kind]

\* init()
InitStage ==
    /\ Returns("init")
    /\ UNCHANGED <<env, locals, reports, out, binVars, prepVars, trainVars, callVars, loaderVars>>

\* valid_fiis_list = fiis_definition.get_registered_fiis_list(only_valid_fiis=True)
FetchTrainingFunds ==
    /\ Returns("fetch_training_funds")
    /\ locals' = [locals EXCEPT !.valid_fiis_list = env.registered]
    /\ UNCHANGED <<env, reports, out, binVars, prepVars, trainVars, callVars, loaderVars>>

\* X, Y_beta, Y_dy = data_preparation(...) over the training window.
PrepareTrainingData ==
    /\ pc = "prepare_training_data"
    /\ LET r == data_preparation(locals.valid_fiis_list, trainning_window(env))
       IN  IF r.status = "ok"
           THEN /\ Returns("prepare_training_data")
                /\ locals' = [locals EXCEPT !.X_trainning = r.X, !.Y_beta = r.Y_beta,
                                            !.Y_dy = r.Y_dy]
                /\ out' = out
           ELSE /\ Raises("prepare_training_data", r.status)
                /\ locals' = locals
    /\ UNCHANGED <<env, reports, binVars, prepVars, trainVars, callVars, loaderVars>>

\* SupervisedML(X=X, Y=Y) followed by evaluate_best_supervised_method(), for
\* the label frame Y; the results go to the global named target.
Train(stage, Y, target) ==
    /\ pc = stage
    /\ LET self == AI_init(locals.X_trainning.index, Y.class, ConstructorDefaults.seed,
                           ConstructorDefaults.test_set_size, np_random)
       IN  \E hv \in PipelineFits :
              /\ \A key \in SevenNames \ {"voting"} :
                     hv[key] \in FitOutcomes(sklearn, self, key)
              /\ LET r == evaluate_best_supervised_method(self, locals.X_trainning, hv)
                 IN  IF r.status = "ok"
                     THEN /\ Returns(stage)
                          /\ locals' = [locals EXCEPT ![target] = r.results]
                          /\ sklearn' = sklearn \cup {r.results[i].model : i \in DOMAIN r.results}
                          /\ out' = out
                     ELSE /\ Raises(stage, r.status)
                          /\ locals' = locals
                          /\ sklearn' = sklearn
    /\ np_random' = np_random_seed(ConstructorDefaults.seed)
    /\ UNCHANGED <<env, reports, binVars, prepVars, train_in, trainer, callVars, loaderVars>>

TrainBeta == Train("train_beta", locals.Y_beta, "beta_supervised_ml_results")

TrainDY == Train("train_dy", locals.Y_dy, "dy_supervised_ml_results")

\* validate_algorithms, first statement: data_preparation over the validation
\* window.
PrepareValidationData ==
    /\ pc = "prepare_validation_data"
    /\ LET r == data_preparation(locals.valid_fiis_list, validation_window(env))
       IN  IF r.status = "ok"
           THEN /\ Returns("prepare_validation_data")
                /\ locals' = [locals EXCEPT !.X_validation = r.X,
                                            !.Y_validation_beta = r.Y_beta,
                                            !.Y_validaton_dy = r.Y_dy]
                /\ out' = out
           ELSE /\ Raises("prepare_validation_data", r.status)
                /\ locals' = locals
    /\ UNCHANGED <<env, reports, binVars, prepVars, trainVars, callVars, loaderVars>>

\* validate_algorithms: the width test with eprint and exit(1), else the
\* column slice and dropna.
WidthCheck ==
    /\ pc = "width_check"
    /\ stages' = Append(stages, "width_check")
    /\ LET V == Len(locals.X_validation.columns)
           T == Len(locals.X_trainning.columns)
       IN  IF V < T
           THEN /\ out' = [out EXCEPT
                              !.stderr = IF eprint(env.verbosity, 0)
                                         THEN Append(@, WidthMessage)
                                         ELSE @,
                              !.exited = TRUE,
                              !.exit_status = 1]
                /\ pc' = "exit1"
                /\ locals' = locals
           ELSE /\ out' = out
                /\ pc' = stage_after("width_check")
                /\ locals' = [locals EXCEPT !.X_for_validation =
                                 frame_dropna(iloc_columns_from(locals.X_validation,
                                                                first_column_kept(V, T)))]
    /\ UNCHANGED <<env, reports, binVars, prepVars, trainVars, callVars, loaderVars>>

\* The module-level name that holds the trained set of an indicator.
results_global(indicator_label) ==
    IF indicator_label = "beta"
    THEN "beta_supervised_ml_results"
    ELSE "dy_supervised_ml_results"

\* One of the four evaluates_single_classification calls of validate_algorithms;
\* the call is handed the module-level dict itself, not a copy.
Validate(stage, Y, supervised_ml_results, indicator_label, is_evaluate_only_best_approach) ==
    /\ pc = stage
    /\ LET r == evaluates_single_classification(locals.X_for_validation, Y,
                                                supervised_ml_results, indicator_label,
                                                is_evaluate_only_best_approach, env.verbosity)
       IN  /\ reports' = Append(reports, r)
           /\ locals' = [locals EXCEPT ![results_global(indicator_label)] =
                                           r.supervised_ml_results]
           /\ IF r.status = "ok"
              THEN Returns(stage) /\ out' = out
              ELSE Raises(stage, r.status)
    /\ UNCHANGED <<env, binVars, prepVars, trainVars, callVars, loaderVars>>

ValidateBetaAll ==
    Validate("validate_beta_all", locals.Y_validation_beta,
             locals.beta_supervised_ml_results, "beta", FALSE)

ValidateBetaBest ==
    Validate("validate_beta_best", locals.Y_validation_beta,
             locals.beta_supervised_ml_results, "beta", TRUE)

ValidateDYAll ==
    Validate("validate_dy_all", locals.Y_validaton_dy,
             locals.dy_supervised_ml_results, "DY", FALSE)

ValidateDYBest ==
    Validate("validate_dy_best", locals.Y_validaton_dy,
             locals.dy_supervised_ml_results, "DY", TRUE)

\* main returns; the interpreter exits with status 0.
Terminate ==
    /\ Returns("terminate")
    /\ out' = [out EXCEPT !.exited = TRUE]
    /\ UNCHANGED <<env, locals, reports, binVars, prepVars, trainVars, callVars, loaderVars>>

Next ==
    \/ InitStage
    \/ FetchTrainingFunds
    \/ PrepareTrainingData
    \/ TrainBeta
    \/ TrainDY
    \/ PrepareValidationData
    \/ WidthCheck
    \/ ValidateBetaAll
    \/ ValidateBetaBest
    \/ ValidateDYAll
    \/ ValidateDYBest
    \/ Terminate

Spec == Init /\ [][Next]_vars

(***************************************************************************)
(* Claims about the script (specification Spec)                            *)
(***************************************************************************)
Running == pc # "idle"

HasRun(stage) == \E i \in DOMAIN stages : stages[i] = stage

TrainingWidth == Len(locals.X_trainning.columns)

ValidationWidth == Len(locals.X_validation.columns)

WidthCheckPassed == Running /\ HasRun("width_check") /\ pc # "exit1"

\* C1: once the width check has passed with V >= T, the matrix used for
\* scoring has exactly T columns, and they are columns [V-T, V) of the
\* validation matrix in their original order, with the cells they had there.
C1_ScoringMatrixIsLastTColumns ==
    WidthCheckPassed =>
        LET V == ValidationWidth
            T == TrainingWidth
            raw == locals.X_validation
            used == locals.X_for_validation
        IN  /\ V >= T
            /\ Len(used.columns) = T
            /\ \A i \in 1..T : used.columns[i] = (V - T) + (i - 1)
            /\ \A i \in 1..T : used.columns[i] = raw.columns[(V - T) + i]
            /\ \A t \in Range(used.index) :
                   /\ Len(used.rows[t]) = T
                   /\ \A i \in 1..T : used.rows[t][i] = raw.rows[t][(V - T) + i]
            /\ \A k \in DOMAIN reports : reports[k].rows = used.index

\* C1 witness: the width check passed with a validation matrix wider than the
\* training matrix, and a scoring run has used the sliced matrix.
C1_Witness ==
    /\ WidthCheckPassed
    /\ ValidationWidth > TrainingWidth
    /\ TrainingWidth > 0
    /\ reports # <<>>
    /\ reports[1].compared # <<>>

\* C2: when the validation matrix has fewer columns than the training matrix,
\* the run ends at the width check with exit status 1, the message is on
\* stderr at every verbosity >= 0, and no evaluates_single_classification
\* call (so no prediction and no counting) has happened.
C2_NarrowValidationIsFatalBeforeScoring ==
    Running =>
        /\ (HasRun("width_check") /\ ValidationWidth < TrainingWidth) =>
               /\ pc = "exit1"
               /\ out.exited
               /\ out.exit_status = 1
               /\ out.raised = "none"
               /\ env.verbosity >= 0 => out.stderr = <<WidthMessage>>
               /\ reports = <<>>
               /\ stages[Len(stages)] = "width_check"
        /\ pc = "exit1" => (HasRun("width_check") /\ ValidationWidth < TrainingWidth)
        /\ reports # <<>> => ValidationWidth >= TrainingWidth

\* C2 witness: a run at verbosity 0 has ended at the width check because the
\* validation matrix was narrower than the training matrix.
C2_Witness ==
    /\ pc = "exit1"
    /\ env.verbosity = 0
    /\ ValidationWidth < TrainingWidth
    /\ ValidationWidth > 0

ModelsGiven(report) ==
    IF report.indicator_label = "beta"
    THEN locals.beta_supervised_ml_results
    ELSE locals.dy_supervised_ml_results

LabelsGiven(report) ==
    IF report.indicator_label = "beta"
    THEN locals.Y_validation_beta
    ELSE locals.Y_validaton_dy

TimesCompared(report, fund, method) ==
    Cardinality({k \in DOMAIN report.compared :
                    /\ report.compared[k].index = fund
                    /\ report.compared[k].current_method = method})

\* Every comparison of the report is the named model's prediction for the
\* fund against the fund's class in the validation window.
ComparisonsAreFaithful(report) ==
    \A k \in DOMAIN report.compared :
        LET c == report.compared[k]
            given == ModelsGiven(report)
        IN  /\ \E j \in DOMAIN given :
                   /\ given[j].name = c.current_method
                   /\ c.predicted_value = given[j].model.predicts
            /\ c.real_value = LabelsGiven(report).class[c.index]
            /\ c.matches = (c.predicted_value = c.real_value)

CountersAreFaithful(report) ==
    /\ report.true_counter
          = Cardinality({k \in DOMAIN report.compared :
                            report.compared[k].predicted_value = report.compared[k].real_value})
    /\ report.true_counter + report.false_counter = Len(report.compared)

\* The reported performance is 100 * trues / (trues + falses) to two decimals.
PerformanceIsFaithful(report) ==
    report.status = "ok" =>
        LET total == report.true_counter + report.false_counter
            exact == 10000 * report.true_counter
            shown == report.performance * total
        IN  /\ total > 0
            /\ 2 * (shown - exact) <= total
            /\ 2 * (exact - shown) <= total

\* C3: a run with the best-only flag off over N retained funds and M models
\* counts every fund-model pair exactly once, as a true iff the prediction
\* equals the fund's real class, so trues + falses = M x N, and the reported
\* performance is 100 * trues / (trues + falses).
C3_AllModelsRunCountsEveryPairOnce ==
    \A r \in DOMAIN reports :
        ~reports[r].is_evaluate_only_best_approach =>
            LET report == reports[r]
                N == Len(locals.X_for_validation.index)
                M == Len(ModelsGiven(report))
            IN  /\ report.rows = locals.X_for_validation.index
                /\ report.true_counter + report.false_counter = M * N
                /\ \A i \in DOMAIN report.rows, j \in DOMAIN ModelsGiven(report) :
                       TimesCompared(report, report.rows[i], ModelsGiven(report)[j].name) = 1
                /\ ComparisonsAreFaithful(report)
                /\ CountersAreFaithful(report)
                /\ PerformanceIsFaithful(report)

\* C3 witness: an all-models run over at least two funds and seven models has
\* reported, with both trues and falses counted.
C3_Witness ==
    \E r \in DOMAIN reports :
        /\ ~reports[r].is_evaluate_only_best_approach
        /\ reports[r].status = "ok"
        /\ Len(reports[r].rows) >= 2
        /\ Len(reports[r].models) = 7
        /\ reports[r].true_counter > 0
        /\ reports[r].false_counter > 0

\* C8: a run with the best-only flag on compares each retained fund exactly
\* once, against the first entry of the ranked results, which holds the
\* highest held-out accuracy, and against no other model: trues + falses = N.
C8_BestOnlyRunUsesTopRankedModelOnce ==
    \A r \in DOMAIN reports :
        reports[r].is_evaluate_only_best_approach =>
            LET report == reports[r]
                ranked == ModelsGiven(report)
                N == Len(locals.X_for_validation.index)
            IN  /\ report.rows = locals.X_for_validation.index
                /\ ranked # <<>>
                /\ \A j \in DOMAIN ranked :
                       ranked[1].accuracy.num * ranked[j].accuracy.den
                           >= ranked[j].accuracy.num * ranked[1].accuracy.den
                /\ \A i \in DOMAIN report.rows :
                       TimesCompared(report, report.rows[i], ranked[1].name) = 1
                /\ \A k \in DOMAIN report.compared :
                       /\ report.compared[k].current_method = ranked[1].name
                       /\ report.compared[k].predicted_value = ranked[1].model.predicts
                /\ Len(report.compared) = N
                /\ CountersAreFaithful(report)
                /\ report.true_counter + report.false_counter = N

\* C8 witness: a best-only run over at least two funds has reported, the
\* top-ranked model is not the first one that was trained, and it scored
\* strictly better on the held-out rows than some other model.
C8_Witness ==
    \E r \in DOMAIN reports :
        /\ reports[r].is_evaluate_only_best_approach
        /\ Len(reports[r].rows) >= 2
        /\ LET ranked == ModelsGiven(reports[r])
           IN  /\ ranked[1].name # MethodOrder[1]
               /\ AccGreater(ranked[1].accuracy, ranked[Len(ranked)].accuracy)
               /\ ranked[1].model.predicts # ranked[Len(ranked)].model.predicts

main_order ==
    <<"init", "fetch_training_funds", "prepare_training_data", "train_beta", "train_dy",
      "prepare_validation_data", "width_check", "validate_beta_all", "validate_beta_best",
      "validate_dy_all", "validate_dy_best", "terminate">>

\* The stages run so far are the first ones of the order, each once, and pc
\* is the one that follows them unless the run has ended.
StagesInOrder ==
    /\ Len(stages) <= Len(main_order)
    /\ \A i \in DOMAIN stages : stages[i] = main_order[i]
    /\ pc \notin {"done", "exit1", "raised"} =>
           /\ Len(stages) < Len(main_order)
           /\ pc = main_order[Len(stages) + 1]
           /\ ~out.exited
    /\ pc = "done" => stages = main_order /\ out.exited /\ out.exit_status = 0
    /\ pc \in {"exit1", "raised"} => out.exited /\ out.exit_status = 1

StagesThatRaise ==
    {"prepare_training_data", "train_beta", "train_dy", "prepare_validation_data",
     "validate_beta_all", "validate_beta_best", "validate_dy_all", "validate_dy_best"}

MaxCalls == 3

\* Names given straight to __evaluate_generic_supervised_method.
GenericNames == {"Tree", "KNN", "bagging", "voting", "svm"}

NoOutcome == [status |-> "none", model |-> NoneModel]

NoCall == [method_name |-> "none", re_evaluate |-> FALSE, wrapper |-> FALSE]

InitGeneric ==
    /\ \E Y \in TrainingLabels(MaxRows) :
          LET self == AI_init([i \in 1..MaxRows |-> i], Y, ConstructorDefaults.seed,
                              ConstructorDefaults.test_set_size, 0)
          IN  generic = [self |-> self, before |-> self, call |-> NoCall,
                         outcome |-> NoOutcome, calls |-> 0]
    /\ ProbeIdle
    /\ LoaderIdle
    /\ BinIdle
    /\ PrepIdle
    /\ TrainIdle
    /\ PipeIdle

\* self.evaluate_decision_tree(X_train, y_train) ... self.evaluate_random_forest(...)
CallWrapper(key) ==
    /\ generic.calls < MaxCalls
    /\ \E h \in FitOutcomes(sklearn, generic.self, key) :
          LET r == evaluate_wrapper(generic.self, key, generic.self._X_train,
                                    generic.self._Y_train, h)
          IN  /\ generic' = [self |-> r.self, before |-> generic.self,
                             call |-> [method_name |-> GenericName(key),
                                       re_evaluate |-> FALSE, wrapper |-> TRUE],
                             outcome |-> [status |-> r.status, model |-> r.model],
                             calls |-> generic.calls + 1]
              /\ sklearn' = IF r.status = "ok" THEN sklearn \cup {r.model} ELSE sklearn
    /\ UNCHANGED <<train_in, trainer, np_random, binVars, prepVars, pipeVars, probe, loaderVars>>

\* self.__evaluate_generic_supervised_method(name, X_train, y_train, re_evaluate)
CallGeneric(name, re_evaluate) ==
    /\ generic.calls < MaxCalls
    /\ \E h \in FitOutcomes(sklearn, generic.self, lower(name)) :
          LET r == evaluate_generic_supervised_method(generic.self, name,
                                                      generic.self._X_train,
                                                      generic.self._Y_train, re_evaluate, h)
          IN  /\ generic' = [self |-> generic.self, before |-> generic.self,
                             call |-> [method_name |-> name,
                                       re_evaluate |-> re_evaluate, wrapper |-> FALSE],
                             outcome |-> r,
                             calls |-> generic.calls + 1]
              /\ sklearn' = IF r.status = "ok" THEN sklearn \cup {r.model} ELSE sklearn
    /\ UNCHANGED <<train_in, trainer, np_random, binVars, prepVars, pipeVars, probe, loaderVars>>

NextGeneric ==
    \/ \E key \in SevenNames : CallWrapper(key)
    \/ \E name \in GenericNames, re_evaluate \in BOOLEAN : CallGeneric(name, re_evaluate)

SpecGeneric == InitGeneric /\ [][NextGeneric]_vars

(***************************************************************************)
(* Claims about the generic method (specification SpecGeneric)             *)
(***************************************************************************)
Called == generic # Idle /\ generic.calls > 0

SupportedNames == {"tree", "mlp", "knn", "bagging", "boosting", "random_forest", "voting"}

UnknownNameCalled == Called /\ lower(generic.call.method_name) \notin SupportedNames

\* C11: a call of the generic method with a name outside tree, mlp, knn,
\* bagging, boosting, random_forest, voting fails with the distinct
\* unsupported-algorithm error, returns no model, and leaves the cached
\* models as they were.
C11_UnknownNameRaisesInvalidAlgorithm ==
    UnknownNameCalled =>
        /\ generic.outcome.status = "InvalidAlgorithm"
        /\ generic.outcome.model = NoneModel
        /\ generic.self = generic.before

\* What does hold for C11's case: the call fails with the AttributeError of
\* calling fit on None, returns no model and leaves the caches as they were.
C11_UnknownNameRaisesAttributeError ==
    UnknownNameCalled =>
        /\ generic.outcome.status = "AttributeError"
        /\ generic.outcome.model = NoneModel
        /\ generic.self = generic.before

EnsembleCalled == Called /\ lower(generic.call.method_name) \in {"voting", "bagging"}

SubModelsOf(method_name) ==
    IF method_name = "bagging" THEN {"decision_tree"} ELSE {"decision_tree", "mlp", "knn"}

SubModelsCached(self, method_name) ==
    \A key \in SubModelsOf(method_name) : self[key] # NoneModel

\* C17: a 'voting' or 'bagging' request reuses the sub-models this trainer has
\* already trained, and, when the re-evaluate flag is set or a sub-model has
\* not been trained yet, trains the sub-model on the supplied data and then
\* builds and fits the ensemble successfully.
C17_EnsembleReusesOrTrainsSubModels ==
    EnsembleCalled =>
        LET name == lower(generic.call.method_name)
        IN  /\ generic.outcome.status = "ok"
            /\ generic.outcome.model.method = name
            /\ (SubModelsCached(generic.before, name) /\ ~generic.call.re_evaluate) =>
                   Range(generic.outcome.model.estimators)
                       = {generic.before[key] : key \in SubModelsOf(name)}

\* What does hold for C17's case: with every sub-model cached and the flag
\* off the ensemble is built on the cached sub-models; otherwise the call
\* ends in the TypeError of the inner call that passes no training data.
C17_EnsembleReusesOrRaisesTypeError ==
    EnsembleCalled =>
        LET name == lower(generic.call.method_name)
        IN  IF SubModelsCached(generic.before, name) /\ ~generic.call.re_evaluate
            THEN /\ generic.outcome.status = "ok"
                 /\ Range(generic.outcome.model.estimators)
                       = {generic.before[key] : key \in SubModelsOf(name)}
            ELSE /\ generic.outcome.status = "TypeError"
                 /\ generic.outcome.model = NoneModel
                 /\ \A key \in SevenNames : generic.self[key] = generic.before[key]

\* C12: the split of a SupervisedML object built with test_set_size=f and
\* seed=s is the split with test fraction f and random seed s: the caller's
\* f and s govern the partition on which the models are trained and scored.
C12_CallerSeedAndFractionGovernSplit ==
    \A run \in Runs :
        Built(run) =>
            LET self == trainer[run].self
                expected == train_test_split(train_in.X, train_in.Y,
                                             train_in.test_set_size, train_in.seed)
            IN  /\ self._X_train = expected.X_train
                /\ self._X_test = expected.X_test
                /\ self._Y_train = expected.Y_train
                /\ self._Y_test = expected.Y_test

\* What does hold for C12's case: the partition is the one of the class
\* attributes _test_set_size = 0.3 and _seed = 10, whatever the caller
\* passed; the caller's values are stored only after the split.
C12_ClassDefaultsGovernSplit ==
    \A run \in Runs :
        Built(run) =>
            LET self == trainer[run].self
                expected == train_test_split(train_in.X, train_in.Y,
                                             ClassAttributes._test_set_size,
                                             ClassAttributes._seed)
            IN  /\ self._X_train = expected.X_train
                /\ self._X_test = expected.X_test
                /\ self._Y_train = expected.Y_train
                /\ self._Y_test = expected.Y_test
                /\ self._seed = train_in.seed
                /\ self._test_set_size = train_in.test_set_size

ValidationPrepared == Running /\ HasRun("prepare_validation_data") /\ pc # "raised"

\* The tercile classes of the funds of index, binned on the values they have
\* in the indicator map of one window.
ClassesWithin(indicator, index) ==
    qcut([i \in DOMAIN index |-> indicator[index[i]]], qcut_q, qcut_labels)

\* C13: the classes of the validation window are a function of the validation
\* window's own beta and DY values (the cut points are recomputed inside the
\* validation data_preparation call), so runs with the same validation values
\* and different training windows give every validation fund the same
\* beta class and DY class.
C13_ValidationLabelsDependOnValidationWindowOnly ==
    ValidationPrepared =>
        LET index == locals.Y_validation_beta.index
            beta == ClassesWithin(env.validation.beta_indices, index)
            dy == ClassesWithin(env.validation.dy_dict, index)
        IN  /\ locals.Y_validaton_dy.index = index
            /\ Range(index) =
                  {t \in Range(env.registered) :
                      /\ t \in DOMAIN env.validation.beta_indices
                      /\ t \in DOMAIN env.validation.dy_dict
                      /\ env.validation.beta_indices[t] # NaN
                      /\ env.validation.dy_dict[t] # NaN}
            /\ beta.status = "ok"
            /\ dy.status = "ok"
            /\ \A i \in DOMAIN index :
                   /\ locals.Y_validation_beta.class[index[i]] = beta.value[i]
                   /\ locals.Y_validaton_dy.class[index[i]] = dy.value[i]

\* C13 witness: the validation window has been prepared after a training
\* window with other indicator values, and some fund's validation classes
\* differ from its training classes.
C13_Witness ==
    /\ ValidationPrepared
    /\ env.trainning.beta_indices # env.validation.beta_indices
    /\ \E t \in Range(locals.Y_validation_beta.index) :
           /\ t \in Range(locals.Y_beta.index)
           /\ locals.Y_beta.class[t] # locals.Y_validation_beta.class[t]
           /\ locals.Y_dy.class[t] # locals.Y_validaton_dy.class[t]

(***************************************************************************)
(* get_fiis_quotations with its date arguments, over a dated               *)
(* fiis_daily_quotation table.                                             *)
(***************************************************************************)
MaxDate == 3

\* Dates are 1..MaxDate; '1990-01-01' is the first of them.
Dates == 1..MaxDate

earliest_date == 1

\* An argument left at its default None.
None == NaN - 1

NoneList == <<None>>

\* datetime.today().strftime('%Y-%m-%d') where datetime names the class
\* (fiislib.py: from datetime import datetime).
today_of_class(clock) == [status |-> "ok", value |-> clock]

\* datetime.today() where datetime names the module (supervised_learning.py:
\* import datetime): the module has no attribute today.
today_of_module(clock) == [status |-> "AttributeError", value |-> None]

\* FIIs.get_fii_daily_quotation_for_date_interval(ticker, start_date, end_date):
\* the ticker's rows with start_date <= date <= end_date, ORDER BY date ASC,
\* each row identified by its date.
get_fii_daily_quotation_for_date_interval(table, ticker, start_date, end_date, clock) ==
    LET start == IF start_date = None THEN earliest_date ELSE start_date
        end == IF end_date = None THEN today_of_class(clock).value ELSE end_date
        rows == {d \in table[ticker] : start <= d /\ d <= end}
    IN  [start_date |-> start, end_date |-> end,
         rows |-> [i \in 1..Cardinality(rows) |->
                     CHOOSE d \in rows : Cardinality({e \in rows : e < d}) = i - 1]]

\* The retained columns of the given daily rows, flattened row by row.
flatten_quotations(rows) ==
    LET r == Len(RetainedColumns)
    IN  [i \in 1..(Len(rows) * r) |->
            Cell(rows[((i - 1) \div r) + 1], RetainedColumns[((i - 1) % r) + 1])]

\* get_fiis_quotations(valid_fiis_list, start_date, end_date): the defaults of
\* the dates sit inside the branch taken when valid_fiis_list is None.
get_fiis_quotations_in_interval(valid_fiis_list, start_date, end_date, table, registered, clock) ==
    LET list == IF valid_fiis_list = NoneList THEN registered ELSE valid_fiis_list
        start == IF valid_fiis_list = NoneList /\ start_date = None
                 THEN earliest_date
                 ELSE start_date
        today == IF valid_fiis_list = NoneList /\ end_date = None
                 THEN today_of_module(clock)
                 ELSE [status |-> "ok", value |-> end_date]
        query(t) == get_fii_daily_quotation_for_date_interval(table, t, start, today.value, clock)
    IN  IF today.status # "ok"
        THEN [status |-> today.status, keys |-> <<>>, quotation_data |-> <<>>,
              queried |-> <<>>]
        ELSE [status |-> "ok",
              keys |-> list,
              quotation_data |-> [t \in Range(list) |-> flatten_quotations(query(t).rows)],
              queried |-> [t \in Range(list) |->
                              [start_date |-> query(t).start_date,
                               end_date |-> query(t).end_date,
                               rows |-> query(t).rows]]]

(***************************************************************************)
(* Specification SpecQuotations: one get_fiis_quotations call, with the    *)
(* fund list and either date given or omitted.                             *)
(***************************************************************************)
\* Contents of fiis_daily_quotation: the dates on which a ticker has a row.
QuotationTables ==
    {[t \in Funds |-> Dates],
     [t \in Funds |-> {d \in Dates : d >= t}],
     [t \in Funds |-> {d \in Dates : d % 2 = t % 2}]}

FundLists == {NoneList} \cup {[i \in 1..n |-> i] : n \in 0..MaxFunds}

InitQuotations ==
    /\ \E list \in FundLists, start \in Dates \cup {None}, end \in Dates \cup {None},
          table \in QuotationTables :
          probe = [function |-> "get_fiis_quotations",
                   valid_fiis_list |-> list, start_date |-> start, end_date |-> end,
                   table |-> table, registered |-> [i \in 1..MaxFunds |-> i],
                   clock |-> MaxDate,
                   result |-> [status |-> "pending"]]
    /\ GenericIdle
    /\ LoaderIdle
    /\ BinIdle
    /\ PrepIdle
    /\ TrainIdle
    /\ PipeIdle

GetFiisQuotations ==
    /\ probe.function = "get_fiis_quotations"
    /\ probe.result.status = "pending"
    /\ probe' = [probe EXCEPT !.result =
                    get_fiis_quotations_in_interval(probe.valid_fiis_list, probe.start_date,
                                                    probe.end_date, probe.table,
                                                    probe.registered, probe.clock)]
    /\ UNCHANGED <<generic, binVars, prepVars, trainVars, pipeVars, loaderVars>>

NextQuotations == GetFiisQuotations

SpecQuotations == InitQuotations /\ [][NextQuotations]_vars

QuotationsCalled ==
    /\ probe # Idle
    /\ probe.function = "get_fiis_quotations"
    /\ probe.result.status # "pending"

\* C14: in get_fiis_quotations an omitted start_date stands for the earliest
\* date and an omitted end_date for today, whether the fund list is given or
\* omitted, and with the list omitted all registered funds are used.
C14_DateDefaultsApplyWithOrWithoutList ==
    QuotationsCalled =>
        LET result == probe.result
            start == IF probe.start_date = None THEN earliest_date ELSE probe.start_date
            end == IF probe.end_date = None THEN probe.clock ELSE probe.end_date
        IN  /\ result.status = "ok"
            /\ result.keys = IF probe.valid_fiis_list = NoneList
                             THEN probe.registered
                             ELSE probe.valid_fiis_list
            /\ \A t \in Range(result.keys) :
                   /\ result.queried[t].start_date = start
                   /\ result.queried[t].end_date = end
                   /\ Range(result.queried[t].rows)
                          = {d \in probe.table[t] : start <= d /\ d <= end}

\* What does hold for C14's case: the defaults reach the query in every call
\* that returns (through get_fiis_quotations when the list is omitted, through
\* the query method's own defaults when it is given), but a call with both
\* the list and end_date omitted raises AttributeError.
C14_DateDefaultsUnlessListAndEndOmitted ==
    QuotationsCalled =>
        LET result == probe.result
            start == IF probe.start_date = None THEN earliest_date ELSE probe.start_date
            end == IF probe.end_date = None THEN probe.clock ELSE probe.end_date
        IN  IF probe.valid_fiis_list = NoneList /\ probe.end_date = None
            THEN result.status = "AttributeError"
            ELSE /\ result.status = "ok"
                 /\ \A t \in Range(result.keys) :
                        /\ result.queried[t].start_date = start
                        /\ result.queried[t].end_date = end

QuotationsReturned == QuotationsCalled /\ probe.result.status = "ok"

FieldsOfClaim == <<"last", "open", "maximum", "minimum">>

FieldsRetained == <<"year_reference", "last", "open", "maximum", "minimum">>

\* The vector is the row-major flattening of the rows over the given fields:
\* all fields of the first (earliest) row, then the second, and so on.
IsFlatteningOver(vector, rows, fields) ==
    /\ Len(vector) = Len(rows) * Len(fields)
    /\ \A k \in DOMAIN rows, j \in DOMAIN fields :
           vector[(k - 1) * Len(fields) + j] = Cell(rows[k], fields[j])

DateAscending(rows) == \A i, j \in DOMAIN rows : i < j => rows[i] < rows[j]

NoEntryFrom(vector, rows, fields) ==
    \A i \in DOMAIN vector, k \in DOMAIN rows :
        \A c \in fields : vector[i] # Cell(rows[k], c)

\* C15 as stated: every fund's feature vector is the row-major flattening of
\* its date-ascending rows over last, open, maximum, minimum, d x 4 entries
\* for d rows.
C15_FourFieldsPerDay ==
    QuotationsReturned =>
        \A t \in Range(probe.result.keys) :
            LET rows == probe.result.queried[t].rows
            IN  /\ DateAscending(rows)
                /\ IsFlatteningOver(probe.result.quotation_data[t], rows, FieldsOfClaim)

\* C15: every fund's feature vector is the row-major flattening of its
\* date-ascending rows over year_reference, last, open, maximum, minimum:
\* d x 5 entries for d rows, none of them from date, volume or variation.
C15_FiveFieldsPerDay ==
    QuotationsReturned =>
        \A t \in Range(probe.result.keys) :
            LET rows == probe.result.queried[t].rows
                vector == probe.result.quotation_data[t]
            IN  /\ DateAscending(rows)
                /\ IsFlatteningOver(vector, rows, FieldsRetained)
                /\ Len(vector) = 5 * Len(rows)
                /\ NoEntryFrom(vector, rows, {"date", "volume", "variation"})

\* C15 witness: a call returned the vector of a fund with at least two daily
\* rows in the interval.
C15_Witness ==
    /\ QuotationsReturned
    /\ \E t \in Range(probe.result.keys) :
           /\ Len(probe.result.queried[t].rows) >= 2
           /\ Len(probe.result.quotation_data[t]) >= 10

(***************************************************************************)
(* Fixed-threshold classes: beta_classes, dy_classes, categorize_by_range. *)
(* Indicator values and thresholds are counted in tenths (0.2 is 2).       *)
(***************************************************************************)
MaxRangeValue == 11

\* math.inf: above every value.
inf == MaxRangeValue + 1

\* The dictionaries in insertion order, which is the order the loop visits.
beta_classes ==
    <<[key |-> "high", label |-> 1, upper_range |-> inf, lower_range |-> 2],
      [key |-> "average", label |-> 2, upper_range |-> 2, lower_range |-> 1],
      [key |-> "low", label |-> 3, upper_range |-> 1, lower_range |-> 0]>>

dy_classes ==
    <<[key |-> "high", label |-> 1, upper_range |-> inf, lower_range |-> 10],
      [key |-> "average", label |-> 2, upper_range |-> 10, lower_range |-> 6],
      [key |-> "low", label |-> 3, upper_range |-> 6, lower_range |-> 0]>>

range_contains_above_lower(value, class) ==
    class.lower_range < value /\ value < class.upper_range

\* lower_range <= value < upper_range
range_contains(value, class) ==
    class.lower_range <= value /\ value < class.upper_range

\* The label of the first class whose range holds the value; falling off the
\* loop returns None.
categorize_by_range(value, categories_dict) ==
    LET matching == {k \in DOMAIN categories_dict : range_contains(value, categories_dict[k])}
    IN  IF matching = {}
        THEN None
        ELSE categories_dict[CHOOSE k \in matching : \A m \in matching : k <= m].label

(***************************************************************************)
(* Specification SpecRange: categorize_by_range applied to one value, and  *)
(* the binning step of data_preparation applied to one indicator column,   *)
(* under each binning policy a configuration file may name.                *)
(***************************************************************************)
RangeValues == (0 - 1)..MaxRangeValue

CategoriesDicts == {beta_classes, dy_classes}

\* config.ini may carry any option; no code reads one that names a policy.
BinningOptions == {"absent", "quantile", "fixed_thresholds"}

IndicatorColumns == [1..3 -> 0..MaxValue]

InitRange ==
    /\ \E value \in RangeValues, dict \in CategoriesDicts,
          option \in BinningOptions, column \in IndicatorColumns :
          probe = [function |-> "categorize_by_range",
                   value |-> value, categories_dict |-> dict,
                   config |-> [binning |-> option], column |-> column,
                   label |-> [status |-> "pending"],
                   binned |-> [status |-> "pending", value |-> <<>>]]
    /\ GenericIdle
    /\ LoaderIdle
    /\ BinIdle
    /\ PrepIdle
    /\ TrainIdle
    /\ PipeIdle

CategorizeByRange ==
    /\ probe.function = "categorize_by_range"
    /\ probe.label.status = "pending"
    /\ probe' = [probe EXCEPT !.label =
                    [status |-> "ok",
                     value |-> categorize_by_range(probe.value, probe.categories_dict)]]
    /\ UNCHANGED <<generic, binVars, prepVars, trainVars, pipeVars, loaderVars>>

\* data_preparation's binning of one indicator column: pd.qcut, the calls to
\* categorize_by_range being commented out.
BinIndicatorColumn ==
    /\ probe.function = "categorize_by_range"
    /\ probe.binned.status = "pending"
    /\ probe' = [probe EXCEPT !.binned = qcut(probe.column, qcut_q, qcut_labels)]
    /\ UNCHANGED <<generic, binVars, prepVars, trainVars, pipeVars, loaderVars>>

NextRange == CategorizeByRange \/ BinIndicatorColumn

SpecRange == InitRange /\ [][NextRange]_vars

RangeProbe == probe # Idle /\ probe.function = "categorize_by_range"

Categorized == RangeProbe /\ probe.label.status = "ok"

ColumnBinned == RangeProbe /\ probe.binned.status = "ok"

ClassesHolding(value, dict) == {k \in DOMAIN dict : range_contains(value, dict[k])}

\* The labels the fixed thresholds give the column, as the commented-out
\* lines would assign them.
FixedThresholdLabels(column, dict) ==
    [j \in DOMAIN column |->
        categorize_by_range(IF column[j] < 0 THEN 0 - column[j] ELSE column[j], dict)]

\* Half-open ranges: every non-negative value lies in exactly one range and
\* gets that range's label; for beta 1 from 0.2 up, 2 in [0.1, 0.2), 3 in
\* [0, 0.1); for DY 1 from 1.0 up, 2 in [0.6, 1.0), 3 in [0, 0.6).
RangesPartitionNonNegatives ==
    (Categorized /\ probe.value >= 0) =>
        LET v == probe.value
            dict == probe.categories_dict
            high == dict[1].lower_range
            average == dict[2].lower_range
        IN  /\ Cardinality(ClassesHolding(v, dict)) = 1
            /\ probe.label.value =
                   IF v >= high THEN 1 ELSE IF v >= average THEN 2 ELSE 3
            /\ dict = beta_classes => (high = 2 /\ average = 1)
            /\ dict = dy_classes => (high = 10 /\ average = 6)

\* C16 as stated: the fixed-threshold policy can be selected by
\* configuration, so that a configuration naming it makes data_preparation
\* label the column with categorize_by_range; and categorize_by_range maps
\* every non-negative value to exactly one label over half-open ranges.
C16_FixedThresholdsSelectableByConfiguration ==
    /\ RangesPartitionNonNegatives
    /\ (ColumnBinned /\ probe.config.binning = "fixed_thresholds") =>
           probe.binned.value = FixedThresholdLabels(probe.column, probe.categories_dict)

\* C16: categorize_by_range maps every non-negative value to exactly one
\* label over half-open ranges [lower, upper) (beta: 1 from 0.2 up, 2 in
\* [0.1, 0.2), 3 in [0, 0.1)) and a negative value to None; whatever the
\* configuration names, data_preparation labels a column by its terciles.
C16_RangesHalfOpenAndQuantilesAlwaysUsed ==
    /\ RangesPartitionNonNegatives
    /\ (Categorized /\ probe.value < 0) => probe.label.value = None
    /\ (RangeProbe /\ probe.binned.status # "pending") =>
           probe.binned = qcut(probe.column, <<0, 33, 67, 100>>, <<3, 2, 1>>)

\* C16 witness: with the fixed thresholds named by the configuration, a beta
\* of exactly 0.2 was given label 1 and a column was binned into terciles
\* that differ from the fixed-threshold labels.
C16_Witness ==
    /\ Categorized
    /\ ColumnBinned
    /\ probe.config.binning = "fixed_thresholds"
    /\ probe.categories_dict = beta_classes
    /\ probe.value = 2
    /\ probe.label.value = 1
    /\ probe.binned.value # FixedThresholdLabels(probe.column, beta_classes)

Printed(report, line) == line \in Range(report.stdout)

TablesPrinted(report) == Cardinality({i \in DOMAIN report.stdout : report.stdout[i] = "table"})

\* C19: in every evaluates_single_classification call the Trues and Falses
\* lines are printed iff verbosity >= 1, and so is the Performance line of a
\* call that returns; the detail tables, one per scored fund, are printed iff
\* verbosity >= 2; so a printed table comes with the summary, and at
\* verbosity 1 only the summary appears.
C19_OutputGatedMonotonicallyByVerbosity ==
    \A r \in DOMAIN reports :
        LET report == reports[r]
        IN  /\ Printed(report, "Trues") <=> env.verbosity >= 1
            /\ Printed(report, "Falses") <=> env.verbosity >= 1
            /\ report.status = "ok" => (Printed(report, "Performance") <=> env.verbosity >= 1)
            /\ report.rows # <<>> => (Printed(report, "table") <=> env.verbosity >= 2)
            /\ Printed(report, "table") => TablesPrinted(report) = Len(report.rows)
            /\ Printed(report, "table") => Printed(report, "Trues") /\ Printed(report, "Falses")
            /\ env.verbosity = 1 =>
                   /\ ~Printed(report, "table")
                   /\ report.status = "ok" => report.stdout = <<"Trues", "Falses", "Performance">>
            /\ env.verbosity < 1 => report.stdout = <<>>

\* C19 witness: at verbosity 2 a call over at least two funds has printed a
\* table for each fund and then the three summary lines.
C19_Witness ==
    /\ env.verbosity = 2
    /\ \E r \in DOMAIN reports :
           /\ reports[r].status = "ok"
           /\ Len(reports[r].rows) >= 2
           /\ TablesPrinted(reports[r]) = Len(reports[r].rows)
           /\ Printed(reports[r], "Performance")

PositionIn(index, t) == CHOOSE i \in DOMAIN index : index[i] = t

ValidationIndicator(report) ==
    IF report.indicator_label = "beta"
    THEN env.validation.beta_indices
    ELSE env.validation.dy_dict

\* C18: every comparison of a scoring run takes as real class the class
\* binned, in the validation data_preparation call, for the ticker of the row
\* being scored, also when columns were sliced off and rows dropped from the
\* matrix; and every row of the matrix data_preparation returned has a class
\* in both label vectors.
C18_RealClassIsLookedUpByTicker ==
    /\ \A r \in DOMAIN reports :
           LET report == reports[r]
               Y == LabelsGiven(report)
               labelled == ClassesWithin(ValidationIndicator(report), Y.index)
           IN  /\ report.rows = locals.X_for_validation.index
               /\ \A k \in DOMAIN report.compared :
                      LET c == report.compared[k]
                      IN  /\ c.index \in Range(Y.index)
                          /\ c.index \in Range(locals.X_validation.index)
                          /\ labelled.status = "ok"
                          /\ c.real_value = labelled.value[PositionIn(Y.index, c.index)]
                          /\ c.matches <=> (c.predicted_value = c.real_value)
    /\ ValidationPrepared =>
           /\ locals.X_validation.index = locals.Y_validation_beta.index
           /\ locals.X_validation.index = locals.Y_validaton_dy.index
           /\ \A t \in Range(locals.X_validation.index) :
                  /\ locals.Y_validation_beta.class[t] \in Classes
                  /\ locals.Y_validaton_dy.class[t] \in Classes
    /\ WidthCheckPassed =>
           \A t \in Range(locals.X_for_validation.index) :
               /\ t \in Range(locals.X_validation.index)
               /\ LET V == ValidationWidth
                      T == TrainingWidth
                  IN  locals.X_for_validation.rows[t]
                          = SubSeq(locals.X_validation.rows[t], V - T + 1, V)

\* C18 witness: a scoring run over a matrix that lost both leading columns and
\* a row, in which a scored fund stands at another position than in the label
\* vector, where the class stored at its position is not its own.
C18_Witness ==
    \E r \in DOMAIN reports :
        LET Y == LabelsGiven(reports[r])
        IN  /\ ValidationWidth > TrainingWidth
            /\ Len(reports[r].rows) < Len(Y.index)
            /\ \E i \in DOMAIN reports[r].rows :
                   /\ Y.index[i] # reports[r].rows[i]
                   /\ Y.class[Y.index[i]] # Y.class[reports[r].rows[i]]
                   /\ \E k \in DOMAIN reports[r].compared :
                          reports[r].compared[k].index = reports[r].rows[i]

ScoringRuns == {"validate_beta_all", "validate_beta_best", "validate_dy_all", "validate_dy_best"}

\* C20: from the moment train_algorithms has returned no step changes the
\* beta or the DY trained set: the names, their order, the accuracies and the
\* models stay what they were, through all four scoring runs.
C20_TrainedSetsNeverModifiedAfterTraining ==
    [][(Running /\ HasRun("train_dy") /\ pc # "raised") =>
           /\ locals.beta_supervised_ml_results' = locals.beta_supervised_ml_results
           /\ locals.dy_supervised_ml_results' = locals.dy_supervised_ml_results]_vars

\* C20 witness: all four scoring runs are over and both trained sets still
\* hold their seven entries.
C20_Witness ==
    /\ \A stage \in ScoringRuns : HasRun(stage)
    /\ Len(reports) = 4
    /\ Len(locals.beta_supervised_ml_results) = 7
    /\ Len(locals.dy_supervised_ml_results) = 7
    /\ locals.beta_supervised_ml_results # locals.dy_supervised_ml_results

(***************************************************************************)
(* Utilities.call_function_for_single_or_multithread and the thread pool   *)
(* of ThreadPoolExecutorStackTraced, running loader tasks                  *)
(* (update_dividends_for_fii, updateFiiDailyQuotation) over an iterable.   *)
(***************************************************************************)
MaxItems == 3
MaxWorkers == 2

\* max_workers=20 of Utilities.__init__
max_workers_default == 20

\* What func does with an item: returns a value, returns None, or raises.
Exceptions == {"ValueError", "HTTPError"}

FuncOutcomes == {"value", "None"} \cup Exceptions

\* Exception classes whose constructor accepts one positional argument;
\* urllib.error.HTTPError(url, code, msg, hdrs, fp) is not one of them.
OneArgumentExceptions == {"ValueError"}

\* _function_wrapper: fn's return value, or for an Exception the result of
\* raise sys.exc_info()[0](traceback.format_exc()).
function_wrapper(outcome) ==
    IF outcome \notin Exceptions THEN outcome
    ELSE IF outcome \in OneArgumentExceptions THEN outcome
    ELSE "TypeError"

\* A worker thread takes the next work item when fewer than max_workers
\* threads are busy.
worker_available_always(running, max_workers) == TRUE
worker_available(running, max_workers) == running < max_workers

\* if futureResult != None: return_values.append(futureResult)
append_result_keeping_none(return_values, result) == Append(return_values, result)
append_result(return_values, result) ==
    IF result # None THEN Append(return_values, result) ELSE return_values

\* The value func returns for an item: the item itself, or None.
ResultOf(outcome, item) == IF outcome = "None" THEN None ELSE item

RunningTasks(p) == {i \in DOMAIN p.task : p.task[i] = "running"}

FinishedTasks(p) == {i \in DOMAIN p.task : p.task[i] = "finished"}

\* A loader task's first statements: Postgres(...) and connectToDatabase().
connectToDatabase(connections, i) == Append(connections, [owner |-> i, state |-> "open"])

\* disconnectFromDatabase(), the task's last statement; a task that raises
\* does not get there.
disconnectFromDatabase(connections, i) ==
    [c \in DOMAIN connections |->
        IF connections[c].owner = i THEN [connections[c] EXCEPT !.state = "closed"]
        ELSE connections[c]]

(***************************************************************************)
(* Specification SpecPool: one call, in either mode.                       *)
(***************************************************************************)
InitPool ==
    /\ \E n \in 0..MaxItems, multithread \in BOOLEAN,
          max_workers \in (1..MaxWorkers) \cup {max_workers_default} :
          \E func \in [1..n -> FuncOutcomes] :
              pool = [multithread |-> multithread, max_workers |-> max_workers,
                      iterable |-> [i \in 1..n |-> i], func |-> func,
                      pc |-> IF multithread THEN "submit" ELSE "iterate",
                      k |-> 1,
                      task |-> [i \in 1..n |-> "new"],
                      calls |-> [i \in 1..n |-> 0],
                      connections |-> <<>>,
                      futures |-> <<>>,
                      completed |-> <<>>,
                      finished |-> {},
                      yielded |-> <<>>,
                      return_values |-> <<>>,
                      progress |-> <<>>,
                      exception |-> "none",
                      raised |-> "none"]
    /\ pg = Idle
    /\ GenericIdle
    /\ ProbeIdle
    /\ BinIdle
    /\ PrepIdle
    /\ TrainIdle
    /\ PipeIdle

\* Single thread: one turn of "for current_iteration in iterable".
Iterate ==
    /\ pool.pc = "iterate"
    /\ pool.k <= Len(pool.iterable)
    /\ LET i == pool.iterable[pool.k]
           outcome == pool.func[i]
           opened == connectToDatabase(pool.connections, i)
       IN  pool' = IF outcome \in Exceptions
                   THEN [pool EXCEPT !.calls[i] = @ + 1,
                                     !.task[i] = "finished",
                                     !.completed = Append(@, i),
                                     !.connections = opened,
                                     !.pc = "raised",
                                     !.raised = outcome]
                   ELSE [pool EXCEPT !.calls[i] = @ + 1,
                                     !.task[i] = "finished",
                                     !.completed = Append(@, i),
                                     !.connections = disconnectFromDatabase(opened, i),
                                     !.return_values = Append(@, ResultOf(outcome, i)),
                                     !.progress =
                                         Append(@, format_2f(pool.k, Len(pool.iterable))),
                                     !.k = @ + 1]
    /\ UNCHANGED <<pg, callVars, binVars, prepVars, trainVars, pipeVars>>

\* Single thread: the loop is over; print_verbose('') and return.
IterateReturn ==
    /\ pool.pc = "iterate"
    /\ pool.k > Len(pool.iterable)
    /\ pool' = [pool EXCEPT !.pc = "returned"]
    /\ UNCHANGED <<pg, callVars, binVars, prepVars, trainVars, pipeVars>>

\* Multithread: executor.submit(func, current_iteration, ...) for the next item.
Submit ==
    /\ pool.pc = "submit"
    /\ Len(pool.futures) < Len(pool.iterable)
    /\ LET i == pool.iterable[Len(pool.futures) + 1]
       IN  pool' = [pool EXCEPT !.futures = Append(@, i), !.task[i] = "queued"]
    /\ UNCHANGED <<pg, callVars, binVars, prepVars, trainVars, pipeVars>>

\* A worker thread takes the oldest queued work item and enters func.
TaskStart(i) ==
    /\ pool.multithread
    /\ i \in DOMAIN pool.task
    /\ pool.task[i] = "queued"
    /\ \A j \in DOMAIN pool.task : pool.task[j] = "queued" => i <= j
    /\ worker_available(Cardinality(RunningTasks(pool)), pool.max_workers)
    /\ pool' = [pool EXCEPT !.task[i] = "running",
                            !.calls[i] = @ + 1,
                            !.connections = connectToDatabase(@, i)]
    /\ UNCHANGED <<pg, callVars, binVars, prepVars, trainVars, pipeVars>>

\* func returns or raises inside the worker; the future is done.
TaskFinish(i) ==
    /\ pool.multithread
    /\ i \in DOMAIN pool.task
    /\ pool.task[i] = "running"
    /\ pool' = [pool EXCEPT !.task[i] = "finished",
                            !.completed = Append(@, i),
                            !.connections =
                                IF pool.func[i] \in Exceptions
                                THEN @
                                ELSE disconnectFromDatabase(@, i)]
    /\ UNCHANGED <<pg, callVars, binVars, prepVars, trainVars, pipeVars>>

\* concurrent.futures.as_completed(futures) is entered: it notes the futures
\* that are done already.
AsCompleted ==
    /\ pool.pc = "submit"
    /\ Len(pool.futures) = Len(pool.iterable)
    /\ pool' = [pool EXCEPT !.finished = FinishedTasks(pool),
                            !.pc = IF pool.iterable = <<>> THEN "exit_with" ELSE "collect"]
    /\ UNCHANGED <<pg, callVars, binVars, prepVars, trainVars, pipeVars>>

\* The futures as_completed may yield next: any of those that were done when
\* it was entered (they are kept in a set), and after them the others in the
\* order they finish.
NextYields(p) ==
    LET early == p.finished \ Range(p.yielded)
        late == {i \in FinishedTasks(p) : i \notin p.finished /\ i \notin Range(p.yielded)}
    IN  IF early # {} THEN early
        ELSE {i \in late :
                 \A j \in late : PositionIn(p.completed, i) <= PositionIn(p.completed, j)}

\* One turn of "for future in concurrent.futures.as_completed(futures)":
\* progress, then future.result(), which raises what the wrapper raised.
Collect(i) ==
    /\ pool.pc = "collect"
    /\ i \in NextYields(pool)
    /\ LET result == function_wrapper(pool.func[i])
           last == Len(pool.yielded) + 1 = Len(pool.futures)
           printed == Append(pool.progress, format_2f(pool.k, Len(pool.futures)))
       IN  pool' = IF result \in Exceptions \cup {"TypeError"}
                   THEN [pool EXCEPT !.yielded = Append(@, i),
                                     !.progress = printed,
                                     !.k = @ + 1,
                                     !.exception = result,
                                     !.pc = "exit_with"]
                   ELSE [pool EXCEPT !.yielded = Append(@, i),
                                     !.progress = printed,
                                     !.k = @ + 1,
                                     !.return_values =
                                         append_result(@, ResultOf(result, i)),
                                     !.pc = IF last THEN "exit_with" ELSE "collect"]
    /\ UNCHANGED <<pg, callVars, binVars, prepVars, trainVars, pipeVars>>

\* The with block is left: Executor.__exit__ is shutdown(wait=True), which
\* joins the worker threads once the queue is empty; then the pending
\* exception goes on to the caller, or the call returns return_values.
ExitWith ==
    /\ pool.pc = "exit_with"
    /\ \A i \in DOMAIN pool.task : pool.task[i] = "finished"
    /\ pool' = IF pool.exception # "none"
               THEN [pool EXCEPT !.pc = "raised", !.raised = pool.exception]
               ELSE [pool EXCEPT !.pc = "returned"]
    /\ UNCHANGED <<pg, callVars, binVars, prepVars, trainVars, pipeVars>>

NextPool ==
    \/ Iterate
    \/ IterateReturn
    \/ Submit
    \/ \E i \in 1..MaxItems : TaskStart(i)
    \/ \E i \in 1..MaxItems : TaskFinish(i)
    \/ AsCompleted
    \/ \E i \in 1..MaxItems : Collect(i)
    \/ ExitWith

SpecPool == InitPool /\ [][NextPool]_vars

PoolCalled == pool # Idle

CallReturned == PoolCalled /\ pool.pc = "returned"

CallRaised == PoolCalled /\ pool.pc = "raised"

CallEnded == CallReturned \/ CallRaised

ConnectionsOf(i) == {c \in DOMAIN pool.connections : pool.connections[c].owner = i}

\* Every task that has run has one connection of its own.
OwnConnections ==
    \A i \in DOMAIN pool.task :
        /\ pool.calls[i] = Cardinality(ConnectionsOf(i))
        /\ pool.calls[i] <= 1

TrainingPosition(name) == CHOOSE i \in DOMAIN MethodOrder : MethodOrder[i] = name

\* C22: in what evaluate_best_supervised_method returns, entries of equal
\* accuracy stand in the order decision_tree, mlp, knn, voting, bagging,
\* boosting, random_forest, so the first entry is the earliest trained of the
\* algorithms that share the highest accuracy.
C22_TiesKeepTrainingOrder ==
    \A run \in Runs :
        Returned(run) =>
            LET ranked == trainer[run].returned
            IN  /\ \A i, j \in DOMAIN ranked :
                       (i < j /\ AccEqual(ranked[i].accuracy, ranked[j].accuracy)) =>
                           TrainingPosition(ranked[i].name) < TrainingPosition(ranked[j].name)
                /\ \A j \in DOMAIN ranked :
                       AccEqual(ranked[1].accuracy, ranked[j].accuracy) =>
                           TrainingPosition(ranked[1].name) <= TrainingPosition(ranked[j].name)

\* C22 witness: a returned ranking was reordered by accuracy, and both its
\* leaders and some later entries are tied.
C22_Witness ==
    \E run \in Runs :
        /\ Returned(run)
        /\ trainer[run].returned # trainer[run].results
        /\ AccEqual(trainer[run].returned[1].accuracy, trainer[run].returned[2].accuracy)
        /\ AccGreater(trainer[run].returned[2].accuracy, trainer[run].returned[6].accuracy)
        /\ AccEqual(trainer[run].returned[6].accuracy, trainer[run].returned[7].accuracy)

(***************************************************************************)
(* Specification SpecTargets: train_algorithms' two SupervisedML objects,  *)
(* the beta trainer and then the DY trainer, each built over its own label *)
(* vector and each running evaluate_best_supervised_method block by block; *)
(* the classes the fitted estimators turn out to predict are drawn, per    *)
(* target, from PipelineFits.                                              *)
(***************************************************************************)
Targets == {"beta", "dy"}

CacheKeys == {"decision_tree", "mlp", "knn", "voting", "bagging", "boosting", "random_forest"}

\* self.__decision_tree = ... and the like: the assignment goes through self,
\* so it lands in the object it is made on; the class attributes, which
\* other objects read, stay None.
instance_assign_on_class(objects, target, object) ==
    [t \in DOMAIN objects |->
        IF t = target THEN object
        ELSE [objects[t] EXCEPT !.self =
                 [a \in DOMAIN objects[t].self |->
                     IF a \in CacheKeys THEN object.self[a] ELSE objects[t].self[a]]]]
instance_assign(objects, target, object) == [objects EXCEPT ![target] = object]

InitTargets ==
    /\ \E Y_beta \in TrainingLabels(MaxRows), Y_dy \in TrainingLabels(MaxRows),
          fits_beta \in PipelineFits, fits_dy \in PipelineFits :
          /\ Y_beta = Y_dy => fits_beta = fits_dy
          /\ train_in = [X |-> [i \in 1..MaxRows |-> i],
                         Y |-> [beta |-> Y_beta, dy |-> Y_dy],
                         fits |-> [beta |-> fits_beta, dy |-> fits_dy],
                         seed |-> ConstructorDefaults.seed,
                         test_set_size |-> ConstructorDefaults.test_set_size]
    /\ trainer = [t \in Targets |-> Unbuilt]
    /\ sklearn = {}
    /\ np_random \in {0, 1}
    /\ BinIdle
    /\ PrepIdle
    /\ PipeIdle
    /\ GenericIdle
    /\ ProbeIdle
    /\ LoaderIdle

\* beta_supervised_ml = SupervisedML(X=X, Y=Y_beta), and once the beta
\* results are in, dy_supervised_ml = SupervisedML(X=X, Y=Y_dy).
ConstructTarget(t) ==
    /\ trainer[t].pc = "unbuilt"
    /\ t = "dy" => trainer["beta"].pc = "returned"
    /\ trainer' = [trainer EXCEPT ![t] =
                      [@ EXCEPT !.pc = "evaluating",
                                !.self = AI_init(train_in.X, train_in.Y[t], train_in.seed,
                                                 train_in.test_set_size, np_random)]]
    /\ np_random' = np_random_seed(train_in.seed)
    /\ UNCHANGED <<train_in, sklearn, binVars, prepVars, pipeVars, callVars, loaderVars>>

\* The next block of the target's evaluate_best_supervised_method.
EvaluateTargetBlock(t) ==
    /\ trainer[t].pc = "evaluating"
    /\ Len(trainer[t].results) < Len(MethodOrder)
    /\ LET key == MethodOrder[Len(trainer[t].results) + 1]
           outcomes == FitOutcomes(sklearn, trainer[t].self, key)
           h == IF train_in.fits[t][key] \in outcomes
                THEN train_in.fits[t][key]
                ELSE CHOOSE c \in outcomes : TRUE
       IN  /\ LET r == evaluate_block(trainer[t].self, trainer[t].results, key, h)
              IN  /\ trainer' = instance_assign(trainer, t,
                                    [trainer[t] EXCEPT
                                        !.pc = IF r.status = "ok" THEN @ ELSE "raised",
                                        !.self = r.self,
                                        !.results = r.results])
                  /\ sklearn' = IF r.status = "ok"
                                THEN sklearn \cup {r.self[key]}
                                ELSE sklearn
    /\ UNCHANGED <<train_in, np_random, binVars, prepVars, pipeVars, callVars, loaderVars>>

\* The target's sorted_dict is built and returned.
ReturnTargetSorted(t) ==
    /\ trainer[t].pc = "evaluating"
    /\ Len(trainer[t].results) = Len(MethodOrder)
    /\ trainer' = [trainer EXCEPT ![t] =
                      [@ EXCEPT !.pc = "returned",
                                !.returned = sorted_by_accuracy(trainer[t].results)]]
    /\ UNCHANGED <<train_in, sklearn, np_random, binVars, prepVars, pipeVars, callVars, loaderVars>>

NextTargets ==
    \E t \in Targets : ConstructTarget(t) \/ EvaluateTargetBlock(t) \/ ReturnTargetSorted(t)

SpecTargets == InitTargets /\ [][NextTargets]_vars

TargetsBuilt == trainer # <<>> /\ DOMAIN trainer = Targets

\* The model was fitted on the target's own training labels.
FittedOnOwnLabels(t, model) ==
    /\ model.fitted_X = trainer[t].self._X_train
    /\ model.fitted_y = Restrict(train_in.Y[t], Range(trainer[t].self._X_train))

\* The model stored under the key in the target's results, None if not yet.
ResultModel(t, key) ==
    LET results == trainer[t].results
    IN  IF \E i \in DOMAIN results : results[i].name = key
        THEN results[CHOOSE i \in DOMAIN results : results[i].name = key].model
        ELSE NoneModel

\* C23: each trainer's cache holds exactly the models that trainer itself
\* fitted, on its own target's labels: training DY leaves the beta trainer's
\* cached models as the beta run stored them and never takes a model from
\* them, and the estimators of each target's voting and bagging ensembles
\* are that target's own decision tree, MLP and kNN.
C23_CacheIsPerTrainerObject ==
    TargetsBuilt =>
        \A t \in Targets :
            /\ \A key \in CacheKeys :
                   /\ trainer[t].self[key] = ResultModel(t, key)
                   /\ trainer[t].self[key] # NoneModel =>
                          /\ FittedOnOwnLabels(t, trainer[t].self[key])
                          /\ \A e \in Range(trainer[t].self[key].estimators) :
                                 FittedOnOwnLabels(t, e)
            /\ trainer[t].self.voting # NoneModel =>
                   trainer[t].self.voting.estimators
                       = <<trainer[t].self.decision_tree, trainer[t].self.mlp,
                           trainer[t].self.knn>>
            /\ trainer[t].self.bagging # NoneModel =>
                   trainer[t].self.bagging.estimators = <<trainer[t].self.decision_tree>>

\* C23 witness: both targets are trained, over different training labels,
\* and the beta trainer's cached tree differs from the DY trainer's.
C23_Witness ==
    /\ TargetsBuilt
    /\ trainer["beta"].pc = "returned"
    /\ trainer["dy"].pc = "returned"
    /\ trainer["beta"].self._Y_train # trainer["dy"].self._Y_train
    /\ trainer["beta"].self.decision_tree # trainer["dy"].self.decision_tree
    /\ trainer["beta"].self.voting.estimators # trainer["dy"].self.voting.estimators

\* The position of the key's entry in the target's results, 0 if not there.
ResultPosition(t, key) ==
    LET results == trainer[t].results
    IN  IF \E i \in DOMAIN results : results[i].name = key
        THEN CHOOSE i \in DOMAIN results : results[i].name = key
        ELSE 0

SubModelKeys == {"decision_tree", "mlp", "knn"}

\* C24: in evaluate_best_supervised_method the decision tree, the MLP and the
\* kNN are trained and cached before voting and bagging are requested: no
\* block ever raises (the ensemble branch, which would fit a missing
\* sub-model with no training data, is never taken), a voting or bagging
\* entry comes after the three sub-model entries, and its estimators are the
\* very models those earlier blocks stored.
C24_SubModelsCachedBeforeEnsembles ==
    TargetsBuilt =>
        \A t \in Targets :
            /\ trainer[t].pc # "raised"
            /\ \A e \in {"voting", "bagging"} :
                   ResultPosition(t, e) > 0 =>
                       /\ \A key \in SubModelKeys :
                              /\ ResultPosition(t, key) > 0
                              /\ ResultPosition(t, key) < ResultPosition(t, e)
                       /\ \A m \in Range(ResultModel(t, e).estimators) :
                              \E key \in SubModelKeys : m = ResultModel(t, key)
            /\ trainer[t].pc = "evaluating" /\ Len(trainer[t].results) >= 3 =>
                   \A key \in SubModelKeys : trainer[t].self[key] # NoneModel

\* C24 witness: a target's run has returned with a voting and a bagging
\* entry, both requested after the three sub-models were in the cache.
C24_Witness ==
    /\ TargetsBuilt
    /\ \E t \in Targets :
           /\ trainer[t].pc = "returned"
           /\ ResultPosition(t, "voting") = 4
           /\ ResultPosition(t, "bagging") = 5
           /\ Len(ResultModel(t, "voting").estimators) = 3
           /\ Len(ResultModel(t, "bagging").estimators) = 1

(***************************************************************************)
(* Specification SpecScore: one evaluates_single_classification call on a  *)
(* validation matrix of any number of rows, none included, a label frame   *)
(* over all funds and a ranked set of one or two trained models.           *)
(***************************************************************************)
\* The validation matrices: an index of funds in ticker order, one complete
\* column.
ScoreFrames ==
    {LET index == SelectSeq([i \in 1..MaxFunds |-> i], LAMBDA t : t \in S)
     IN  [index |-> index, columns |-> <<0>>, rows |-> [t \in S |-> <<10>>]] :
         S \in SUBSET (1..MaxFunds)}

ScoreLabels == {LabelFrame([i \in 1..MaxFunds |-> i], c) : c \in [1..MaxFunds -> Classes]}

\* A trained set whose k-th model predicts classes[k] for every row.
ScoreResults ==
    {[k \in DOMAIN classes |->
         [name |-> MethodOrder[k],
          accuracy |-> [num |-> 1, den |-> 1],
          model |-> Model(GenericName(MethodOrder[k]), 0, <<>>, <<>>, <<>>, classes[k])]] :
        classes \in [1..1 -> Classes] \cup [1..2 -> Classes]}

InitScore ==
    /\ \E X \in ScoreFrames, Y \in ScoreLabels, results \in ScoreResults,
          label \in {"beta", "DY"}, best \in BOOLEAN :
          probe = [function |-> "evaluates_single_classification",
                   X_for_validation |-> X, Y_for_validation |-> Y,
                   supervised_ml_results |-> results, indicator_label |-> label,
                   is_evaluate_only_best_approach |-> best,
                   report |-> [status |-> "pending"]]
    /\ GenericIdle
    /\ LoaderIdle
    /\ BinIdle
    /\ PrepIdle
    /\ TrainIdle
    /\ PipeIdle

\* evaluates_single_classification(X_for_validation, Y_for_validation,
\* supervised_ml_results, indicator_label, is_evaluate_only_best_approach)
EvaluatesSingleClassification ==
    /\ probe.report.status = "pending"
    /\ probe' = [probe EXCEPT !.report =
                     evaluates_single_classification(
                         probe.X_for_validation, probe.Y_for_validation,
                         probe.supervised_ml_results, probe.indicator_label,
                         probe.is_evaluate_only_best_approach, 1)]
    /\ UNCHANGED <<binVars, prepVars, trainVars, pipeVars, generic, loaderVars>>

NextScore == EvaluatesSingleClassification

SpecScore == InitScore /\ [][NextScore]_vars

Scored ==
    /\ probe # Idle
    /\ probe.function = "evaluates_single_classification"
    /\ probe.report.status # "pending"

\* C25 as stated: every evaluates_single_classification call completes with
\* a performance figure, the counters adding up to more than zero also when
\* the validation matrix has no rows.
C25_AlwaysCompletesWithPerformanceFigure ==
    Scored =>
        /\ probe.report.status = "ok"
        /\ probe.report.true_counter + probe.report.false_counter > 0

\* What the code does: the call completes exactly when the matrix has a row;
\* with no rows both counters are zero and the performance expression
\* raises ZeroDivisionError.
C25_CompletesIffSomeRowScored ==
    Scored =>
        /\ probe.report.status = "ok" <=> probe.X_for_validation.index # <<>>
        /\ probe.X_for_validation.index = <<>> =>
               /\ probe.report.status = "ZeroDivisionError"
               /\ probe.report.true_counter + probe.report.false_counter = 0

\* The call on a matrix with no rows has ended.
C25_EmptyMatrixScored == Scored /\ probe.X_for_validation.index = <<>>

\* The validation funds whose row is incomplete once only the trailing
\* TrainingWidth columns are kept.
IncompleteAfterAlignment ==
    LET aligned == iloc_columns_from(locals.X_validation,
                                     first_column_kept(ValidationWidth, TrainingWidth))
    IN  {t \in Range(locals.X_validation.index) : RowHasNaN(aligned.rows[t])}

\* The label frame holds, for every fund of the validation data_preparation
\* call, the tercile class computed over all of those funds.
LabelsAreTercilesOverAllFunds(Y, indicator) ==
    LET all == locals.X_validation.index
        labelled == ClassesWithin(indicator, all)
    IN  /\ Y.index = all
        /\ labelled.status = "ok"
        /\ \A i \in DOMAIN all : Y.class[all[i]] = labelled.value[i]

\* C26: dropping the validation rows that are incomplete after the width
\* alignment removes those funds from the scored matrix only: the label
\* frames still hold every fund that had both indicators, each with the
\* tercile class computed over all of them, a remaining fund is compared
\* against that class, and a dropped fund is never scored.
C26_DroppingRowsKeepsClasses ==
    WidthCheckPassed =>
        /\ Range(locals.X_for_validation.index)
               = Range(locals.X_validation.index) \ IncompleteAfterAlignment
        /\ LabelsAreTercilesOverAllFunds(locals.Y_validation_beta, env.validation.beta_indices)
        /\ LabelsAreTercilesOverAllFunds(locals.Y_validaton_dy, env.validation.dy_dict)
        /\ \A r \in DOMAIN reports :
               /\ {reports[r].compared[k].index : k \in DOMAIN reports[r].compared}
                      = Range(locals.X_validation.index) \ IncompleteAfterAlignment
               /\ \A k \in DOMAIN reports[r].compared :
                      LET c == reports[r].compared[k]
                      IN  c.real_value = LabelsGiven(reports[r]).class[c.index]

\* C26 witness: a scoring run has reported after a fund was dropped for an
\* incomplete row, and a remaining fund was compared against a class that is
\* not the one terciles over the remaining funds alone would give it.
C26_Witness ==
    /\ WidthCheckPassed
    /\ IncompleteAfterAlignment # {}
    /\ \E r \in DOMAIN reports :
           LET kept == locals.X_for_validation.index
               among_kept == ClassesWithin(ValidationIndicator(reports[r]), kept)
           IN  /\ among_kept.status = "ok"
               /\ \E k \in DOMAIN reports[r].compared :
                      LET c == reports[r].compared[k]
                      IN  c.real_value # among_kept.value[PositionIn(kept, c.index)]

\* What func returned for the items, in the order of the items given.
ResultsOf(items) == [k \in DOMAIN items |-> ResultOf(pool.func[items[k]], items[k])]

NotNone(values) == SelectSeq(values, LAMBDA v : v # None)

FullProgress == format_2f(1, 1)

\* as_completed yields every future once: first those that were done when it
\* was entered, in any order, then the others in the order they finished.
YieldedInAsCompletedOrder ==
    /\ Range(pool.yielded) = Range(pool.iterable)
    /\ Len(pool.yielded) = Len(pool.iterable)
    /\ \A a, b \in DOMAIN pool.yielded :
           a < b =>
               /\ pool.yielded[b] \in pool.finished => pool.yielded[a] \in pool.finished
               /\ (pool.yielded[a] \notin pool.finished /\ pool.yielded[b] \notin pool.finished) =>
                      PositionIn(pool.completed, pool.yielded[a])
                          < PositionIn(pool.completed, pool.yielded[b])

\* C27 as stated: a call that returns gives, in single-thread mode, one
\* result per item in iteration order, None included, and in multithread
\* mode exactly the non-None results in the order the tasks completed; the
\* last progress printed is 100%.
C27_ResultsInCompletionOrder ==
    CallReturned =>
        /\ ~pool.multithread => pool.return_values = ResultsOf(pool.iterable)
        /\ pool.multithread => pool.return_values = NotNone(ResultsOf(pool.completed))
        /\ pool.progress # <<>> => pool.progress[Len(pool.progress)] = FullProgress

\* C27: a call that returns gives, in single-thread mode, one result per
\* item in iteration order, None included, and in multithread mode exactly
\* the non-None results in the order as_completed yielded the futures:
\* those already done when the collecting loop starts in any order, the
\* others after them in the order they completed. One progress line is
\* printed per item, and the last one of a non-empty iterable is 100%.
C27_ResultsInYieldOrder ==
    CallReturned =>
        /\ ~pool.multithread => pool.return_values = ResultsOf(pool.iterable)
        /\ pool.multithread =>
               /\ pool.return_values = NotNone(ResultsOf(pool.yielded))
               /\ YieldedInAsCompletedOrder
        /\ Len(pool.progress) = Len(pool.iterable)
        /\ pool.progress # <<>> => pool.progress[Len(pool.progress)] = FullProgress

\* C27 witness: a multithread call has returned; a task returned None, which
\* is left out, and the results are not in the order the tasks completed.
C27_Witness ==
    /\ CallReturned
    /\ pool.multithread
    /\ \E i \in DOMAIN pool.func : pool.func[i] = "None"
    /\ Len(pool.return_values) >= 2
    /\ pool.return_values # NotNone(ResultsOf(pool.completed))
    /\ pool.progress[Len(pool.progress)] = FullProgress

\* The task whose exception future.result() raised in the collecting loop.
RaisingTask == pool.yielded[Len(pool.yielded)]

\* Every submitted task has run and is over: none is queued, running or
\* cancelled.
PoolDrained ==
    /\ Len(pool.futures) = Len(pool.iterable)
    /\ \A i \in DOMAIN pool.task : pool.task[i] = "finished" /\ pool.calls[i] = 1

\* C28 as stated: in multithread mode, when a task raises, the call raises
\* an exception of the type the task raised, after every submitted task has
\* run to completion; no task is cancelled or left running.
C28_SameTypeAfterPoolDrained ==
    (CallRaised /\ pool.multithread) =>
        /\ pool.func[RaisingTask] \in Exceptions
        /\ pool.raised = pool.func[RaisingTask]
        /\ PoolDrained

\* What the code does: the pool is drained before the exception leaves, and
\* the exception is of the task's type only when that type can be built
\* from the traceback text alone; for urllib's HTTPError the wrapper's
\* constructor call fails and the caller gets a TypeError.
C28_DrainedButTypeErrorForHTTPError ==
    (CallRaised /\ pool.multithread) =>
        /\ pool.func[RaisingTask] \in Exceptions
        /\ pool.raised = IF pool.func[RaisingTask] \in OneArgumentExceptions
                          THEN pool.func[RaisingTask]
                          ELSE "TypeError"
        /\ PoolDrained

\* A multithread call ended with TypeError for a task that raised HTTPError,
\* after another task had completed normally.
C28_HTTPErrorBecameTypeError ==
    /\ CallRaised
    /\ pool.multithread
    /\ pool.func[RaisingTask] = "HTTPError"
    /\ pool.raised = "TypeError"
    /\ \E i \in DOMAIN pool.func : pool.func[i] = "value"

(***************************************************************************)
(* Specification SpecDividends: update_dividends_for_fii running as two    *)
(* worker tasks, one per fund, each on a connection of its own, against    *)
(* the dividend_types and dividend_quotations tables. Every database       *)
(* statement is a step of its own, so the tasks interleave between         *)
(* statements. The tables' DDL is not part of the repository: whether      *)
(* dividend_types.description is unique and whether type_id is an integer  *)
(* column is left open.                                                    *)
(***************************************************************************)
MaxEntries == 2

\* The funds of the iterable, one task each.
Tasks == {1, 2}

TypeDescriptions == {"rendimento", "amortizacao"}

\* What get_dividends_data_for_fii returns for a fund: entries with the
\* record dates 1, 2, ..., all of one type or of alternating types.
DividendLists ==
    {[k \in 1..n |->
         [type |-> IF alternate /\ k % 2 = 0
                   THEN CHOOSE d \in TypeDescriptions : d # first
                   ELSE first,
          date_record |-> k]] :
        n \in 0..MaxEntries, first \in TypeDescriptions, alternate \in BOOLEAN}

\* The INSERT statement text exec_insert_query returns when it is given no
\* primary_key_label.
SQL == "INSERT INTO"

NoPending == [dividend_types |-> {}, dividend_quotations |-> {}]

NewTask(entries) ==
    [pc |-> "connect", entries |-> entries, k |-> 1, conn |-> "none",
     type_id |-> "0", retVal |-> "none", pending |-> NoPending,
     log |-> <<>>, raised |-> "none"]

InitDividends ==
    /\ \E unique \in BOOLEAN, integer \in BOOLEAN, known \in SUBSET TypeDescriptions,
          stored \in {{}, {1}}, lists \in [Tasks -> DividendLists] :
          /\ Cardinality(known) <= 1
          /\ pg = [unique_description |-> unique,
                   type_id_integer |-> integer,
                   dividend_types |-> [d \in TypeDescriptions |-> IF d \in known THEN 1 ELSE 0],
                   dividend_quotations |->
                       {[fii_id |-> t, date_record |-> r, type_id |-> "id"] :
                           t \in Tasks, r \in stored},
                   task |-> [t \in Tasks |-> NewTask(lists[t])]]
    /\ pool = Idle
    /\ GenericIdle
    /\ ProbeIdle
    /\ BinIdle
    /\ PrepIdle
    /\ TrainIdle
    /\ PipeIdle

Entry(t) == pg.task[t].entries[pg.task[t].k]

Logged(t, op) == Append(pg.task[t].log, [entry |-> pg.task[t].k, op |-> op])

\* if retVal != None: commit, else: rollback
commit_always(retVal) == "commit"
commit_or_rollback(retVal) == IF retVal # "None" THEN "commit" ELSE "rollback"

\* Where the for loop goes after an entry: the next entry, or
\* disconnectFromDatabase.
AfterEntry(t) == IF pg.task[t].k < Len(pg.task[t].entries) THEN "select" ELSE "disconnect"

\* Postgres(...), connectToDatabase() and get_dividends_data_for_fii(fii_ticker).
Connect(t) ==
    /\ pg.task[t].pc = "connect"
    /\ pg' = [pg EXCEPT !.task[t].conn = "open",
                        !.task[t].pc = IF pg.task[t].entries = <<>>
                                       THEN "disconnect" ELSE "select"]
    /\ UNCHANGED <<pool, callVars, binVars, prepVars, trainVars, pipeVars>>

\* SELECT type_id FROM dividend_types WHERE LOWER(description) = LOWER(%s)
\* and fetchone(): the committed rows are what the statement sees.
SelectTypeId(t) ==
    /\ pg.task[t].pc = "select"
    /\ LET found == pg.dividend_types[Entry(t).type] > 0
       IN  pg' = [pg EXCEPT !.task[t].type_id = IF found THEN "id" ELSE "0",
                           !.task[t].log = Logged(t, IF found THEN "found" ELSE "not found"),
                           !.task[t].pc = IF found THEN "insert" ELSE "register"]
    /\ UNCHANGED <<pool, callVars, binVars, prepVars, trainVars, pipeVars>>

\* register_new_dividend_type, the INSERT INTO dividend_types: with a unique
\* description it waits for a transaction that has inserted the same
\* description and fails with UniqueViolation, which nothing catches, when
\* the row is there; otherwise the row is added to the transaction.
RegisterInsert(t) ==
    /\ pg.task[t].pc = "register"
    /\ LET d == Entry(t).type
       IN  /\ pg.unique_description =>
                  \A u \in Tasks \ {t} : d \notin pg.task[u].pending.dividend_types
           /\ pg' = IF pg.unique_description /\ pg.dividend_types[d] > 0
                    THEN [pg EXCEPT !.task[t].log = Logged(t, "UniqueViolation"),
                                    !.task[t].raised = "UniqueViolation",
                                    !.task[t].pc = "raised"]
                    ELSE [pg EXCEPT !.task[t].pending.dividend_types = @ \cup {d},
                                    !.task[t].type_id = SQL,
                                    !.task[t].log = Logged(t, "register"),
                                    !.task[t].pc = "register_commit"]
    /\ UNCHANGED <<pool, callVars, binVars, prepVars, trainVars, pipeVars>>

\* What conn.commit() makes of the tables: the rows of the transaction are
\* added to them.
committed(db, t) ==
    [db EXCEPT !.dividend_types =
                   [d \in TypeDescriptions |->
                       IF d \in db.task[t].pending.dividend_types THEN @[d] + 1 ELSE @[d]],
               !.dividend_quotations = @ \cup db.task[t].pending.dividend_quotations,
               !.task[t].pending = NoPending]

\* register_new_dividend_type, pgsql.conn.commit(); the statement text is
\* returned as the new type id.
RegisterCommit(t) ==
    /\ pg.task[t].pc = "register_commit"
    /\ pg' = [committed(pg, t) EXCEPT !.task[t].log = Logged(t, "commit"),
                                      !.task[t].pc = "insert"]
    /\ UNCHANGED <<pool, callVars, binVars, prepVars, trainVars, pipeVars>>

\* exec_insert_query_ignoring_repeated_pk('dividend_quotations', ...): the
\* statement text when the row goes in, None on UniqueViolation; a type_id
\* that is the statement text is rejected by an integer column with a
\* DataError, which nothing catches.
InsertQuotation(t) ==
    /\ pg.task[t].pc = "insert"
    /\ LET row == [fii_id |-> t, date_record |-> Entry(t).date_record,
                   type_id |-> pg.task[t].type_id]
           present == \E q \in pg.dividend_quotations \cup pg.task[t].pending.dividend_quotations :
                          q.fii_id = row.fii_id /\ q.date_record = row.date_record
       IN  pg' = IF pg.task[t].type_id = SQL /\ pg.type_id_integer
                 THEN [pg EXCEPT !.task[t].log = Logged(t, "DataError"),
                                 !.task[t].raised = "DataError",
                                 !.task[t].pc = "raised"]
                 ELSE IF present
                 THEN [pg EXCEPT !.task[t].retVal = "None",
                                 !.task[t].log = Logged(t, "duplicate"),
                                 !.task[t].pc = commit_or_rollback("None")]
                 ELSE [pg EXCEPT !.task[t].retVal = SQL,
                                 !.task[t].pending.dividend_quotations = @ \cup {row},
                                 !.task[t].log = Logged(t, "inserted"),
                                 !.task[t].pc = commit_or_rollback(SQL)]
    /\ UNCHANGED <<pool, callVars, binVars, prepVars, trainVars, pipeVars>>

\* postgres.conn.commit() after the insert, then the next entry.
Commit(t) ==
    /\ pg.task[t].pc = "commit"
    /\ pg' = [committed(pg, t) EXCEPT !.task[t].log = Logged(t, "commit"),
                                      !.task[t].pc = AfterEntry(t),
                                      !.task[t].k = @ + 1]
    /\ UNCHANGED <<pool, callVars, binVars, prepVars, trainVars, pipeVars>>

\* postgres.conn.rollback() after the insert, then the next entry.
Rollback(t) ==
    /\ pg.task[t].pc = "rollback"
    /\ pg' = [pg EXCEPT !.task[t].pending = NoPending,
                        !.task[t].log = Logged(t, "rollback"),
                        !.task[t].pc = AfterEntry(t),
                        !.task[t].k = @ + 1]
    /\ UNCHANGED <<pool, callVars, binVars, prepVars, trainVars, pipeVars>>

\* postgres.disconnectFromDatabase(): what the transaction still holds is
\* discarded with the connection.
Disconnect(t) ==
    /\ pg.task[t].pc = "disconnect"
    /\ pg' = [pg EXCEPT !.task[t].conn = "closed",
                        !.task[t].pending = NoPending,
                        !.task[t].pc = "done"]
    /\ UNCHANGED <<pool, callVars, binVars, prepVars, trainVars, pipeVars>>

NextDividends ==
    \E t \in Tasks :
        \/ Connect(t)
        \/ SelectTypeId(t)
        \/ RegisterInsert(t)
        \/ RegisterCommit(t)
        \/ InsertQuotation(t)
        \/ Commit(t)
        \/ Rollback(t)
        \/ Disconnect(t)

SpecDividends == InitDividends /\ [][NextDividends]_vars

DividendsRunning == pg # Idle

\* What the task did for its k-th entry, in order.
OpsOf(t, k) ==
    LET mine == SelectSeq(pg.task[t].log, LAMBDA e : e.entry = k)
    IN  [i \in DOMAIN mine |-> mine[i].op]

Times(ops, op) == Cardinality({i \in DOMAIN ops : ops[i] = op})

\* The entries the task is through with: the loop has gone on to the next
\* entry or to disconnectFromDatabase.
EntriesDone(t) == 1..(pg.task[t].k - 1)

\* No two rows of dividend_quotations carry the same fund and record date.
NoDuplicateQuotation ==
    \A q, r \in pg.dividend_quotations :
        (q.fii_id = r.fii_id /\ q.date_record = r.date_record) => q = r

Registrars(d) ==
    {t \in Tasks :
        \E i \in DOMAIN pg.task[t].log :
            /\ pg.task[t].log[i].op = "register"
            /\ pg.task[t].entries[pg.task[t].log[i].entry].type = d}

\* C30 as stated: with update_dividends_for_fii running as concurrent
\* tasks, a dividend type description is registered at most once: two tasks
\* that both meet a description not yet registered never both insert it,
\* and dividend_types never holds it twice.
C30_TypeRegisteredAtMostOnce ==
    DividendsRunning =>
        \A d \in TypeDescriptions :
            /\ Cardinality(Registrars(d)) <= 1
            /\ pg.dividend_types[d] <= 1

\* What the code does: nothing orders one task's lookup and insert against
\* the other's. Only a unique description column keeps the table at one
\* row per description, and then the task that inserts second ends in
\* UniqueViolation; without it every task that found nothing adds a row.
C30_OnlyUniqueColumnPreventsDuplicate ==
    DividendsRunning =>
        \A d \in TypeDescriptions :
            /\ pg.unique_description => pg.dividend_types[d] <= 1
            /\ pg.dividend_types[d] <= 1 + Cardinality(Registrars(d))
            /\ pg.dividend_types[d] <= Cardinality(Tasks)

\* Both tasks looked the description up before either had committed it, both
\* inserted it, and dividend_types holds it twice.
C30_BothTasksRegistered ==
    /\ DividendsRunning
    /\ \E d \in TypeDescriptions :
           /\ Registrars(d) = Tasks
           /\ pg.dividend_types[d] = 2

====
